---- MODULE Spec2Model ----
(***************************************************************************)
(* LocalEats multi-agent recommendation pipeline (src/app/agents).         *)
(*                                                                         *)
(* Three specifications share this module:                                 *)
(*   SpecParse  the reviewer's score parser, reviewer._parse_score         *)
(*   SpecNorm   the two filter normalizers, orchestrator._normalize_filters*)
(*              and researcher._normalize_attribute_filters                *)
(*   Spec       one run of orchestrator.orchestrator_agent, stage by stage *)
(*                                                                         *)
(* Text is a sequence of symbols.  A symbol is one character (" ", ":",    *)
(* "/", a digit) or an unbroken run of letters written as one string       *)
(* ("OVERALL", "Vegan").  Python's None and "" are told apart only where   *)
(* the code tells them apart (isinstance tests); where the code only tests *)
(* truthiness both are the empty sequence.                                 *)
(***************************************************************************)
EXTENDS Integers, Sequences, FiniteSets, TLC

(***************************************************************************)
(* Bounds of the model                                                     *)
(***************************************************************************)
\* longest evaluation text enumerated for the score parser
MaxTextLen == 5
\* longest list value enumerated for a filter slot
MaxListLen == 2

(***************************************************************************)
(* Characters and strings                                                  *)
(***************************************************************************)
Digits == {"0", "1", "2", "3", "4", "5", "6", "7", "8", "9"}

DigitVal(c) ==
    CASE c = "0" -> 0 [] c = "1" -> 1 [] c = "2" -> 2 [] c = "3" -> 3
      [] c = "4" -> 4 [] c = "5" -> 5 [] c = "6" -> 6 [] c = "7" -> 7
      [] c = "8" -> 8 [] c = "9" -> 9

IsDigit(c) == c \in Digits

\* re's \s
IsSpace(c) == c \in {" ", "\n", "\t"}

\* the punctuation symbols used in texts; every other symbol is a run of \w
Punct == {":", "-", "/", ".", ",", "!", "'", "[", "]"}

\* re's \w
IsWordChar(c) == ~IsSpace(c) /\ c \notin Punct

\* str.lower() on one symbol
LowerSym(c) ==
    CASE c = "OVERALL" -> "overall"
      [] c = "Overall" -> "overall"
      [] c = "Vegan" -> "vegan"
      [] c = "OUTDOOR" -> "outdoor"
      [] c = "None" -> "none"
      [] c = "True" -> "true"
      [] c = "A" -> "a"
      [] c = "Thailand" -> "thailand"
      [] c = "MIT" -> "mit"
      [] OTHER -> c

\* str.lower()
Lower(s) == [k \in 1..Len(s) |-> LowerSym(s[k])]

RECURSIVE LStrip(_)
LStrip(s) == IF s # <<>> /\ IsSpace(Head(s)) THEN LStrip(Tail(s)) ELSE s

RECURSIVE RStrip(_)
RStrip(s) ==
    IF s # <<>> /\ IsSpace(s[Len(s)]) THEN RStrip(SubSeq(s, 1, Len(s) - 1)) ELSE s

\* str.strip()
Strip(s) == RStrip(LStrip(s))

Max2(a, b) == IF a >= b THEN a ELSE b
Min2(a, b) == IF a <= b THEN a ELSE b

(***************************************************************************)
(* reviewer._parse_score                                                   *)
(***************************************************************************)
NoMatch == [found |-> FALSE, val |-> 0]
Match(v) == [found |-> TRUE, val |-> v]

\* \s* : the position after the run of white space that starts at p
RECURSIVE SkipSpaces(_, _)
SkipSpaces(t, p) ==
    IF p <= Len(t) /\ IsSpace(t[p]) THEN SkipSpaces(t, p + 1) ELSE p

\* (\d{1,2}), greedy: how many digits the group takes at p (0 = no match)
DigitRun(t, p) ==
    IF p <= Len(t) /\ IsDigit(t[p])
    THEN IF p + 1 <= Len(t) /\ IsDigit(t[p + 1]) THEN 2 ELSE 1
    ELSE 0

\* int(m.group(1)) for a group of n digits at p
IntOf(t, p, n) ==
    IF n = 2 THEN 10 * DigitVal(t[p]) + DigitVal(t[p + 1]) ELSE DigitVal(t[p])

\* re.IGNORECASE match of the word OVERALL
IsOverall(c) == LowerSym(c) = "overall"

\* OVERALL\s*[:\-]\s*(\d{1,2}) tried at position p
OverallAt(t, p) ==
    IF ~IsOverall(t[p]) THEN NoMatch
    ELSE LET q == SkipSpaces(t, p + 1) IN
         IF ~(q <= Len(t) /\ t[q] \in {":", "-"}) THEN NoMatch
         ELSE LET r == SkipSpaces(t, q + 1)
                  n == DigitRun(t, r)
              IN  IF n = 0 THEN NoMatch ELSE Match(IntOf(t, r, n))

\* \s*/\s*10 tried at position q
SlashTenAt(t, q) ==
    LET a == SkipSpaces(t, q) IN
    /\ a <= Len(t) /\ t[a] = "/"
    /\ LET b == SkipSpaces(t, a + 1) IN
       b + 1 <= Len(t) /\ t[b] = "1" /\ t[b + 1] = "0"

\* (\d{1,2})\s*/\s*10 tried at position p: two digits first, then one
SlashAt(t, p) ==
    LET n == DigitRun(t, p) IN
    IF n = 2 /\ SlashTenAt(t, p + 2) THEN Match(IntOf(t, p, 2))
    ELSE IF n >= 1 /\ SlashTenAt(t, p + 1) THEN Match(IntOf(t, p, 1))
    ELSE NoMatch

\* \b at the gap before position k (k in 1..Len(t)+1)
WordBoundary(t, k) ==
    (k > 1 /\ IsWordChar(t[k - 1])) # (k <= Len(t) /\ IsWordChar(t[k]))

\* \b(10|[1-9])\b tried at position p: the alternative 10 first
StandaloneAt(t, p) ==
    IF ~WordBoundary(t, p) THEN NoMatch
    ELSE IF p + 1 <= Len(t) /\ t[p] = "1" /\ t[p + 1] = "0" /\ WordBoundary(t, p + 2)
         THEN Match(10)
    ELSE IF IsDigit(t[p]) /\ t[p] # "0" /\ WordBoundary(t, p + 1)
         THEN Match(DigitVal(t[p]))
    ELSE NoMatch

\* re.search: the match at the leftmost position that has one
RECURSIVE SearchOverall(_, _)
SearchOverall(t, p) ==
    IF p > Len(t) THEN NoMatch
    ELSE IF OverallAt(t, p).found THEN OverallAt(t, p) ELSE SearchOverall(t, p + 1)

RECURSIVE SearchSlash(_, _)
SearchSlash(t, p) ==
    IF p > Len(t) THEN NoMatch
    ELSE IF SlashAt(t, p).found THEN SlashAt(t, p) ELSE SearchSlash(t, p + 1)

RECURSIVE SearchStandalone(_, _)
SearchStandalone(t, p) ==
    IF p > Len(t) THEN NoMatch
    ELSE IF StandaloneAt(t, p).found THEN StandaloneAt(t, p)
    ELSE SearchStandalone(t, p + 1)

DefaultScore == 7

\* the clamp without its upper end
ClampNoUpper(val) == Max2(1, val)

\* max(1, min(10, val))
Clamp(val) == Max2(1, Min2(10, val))

\* the fallback rule reading any 1-2 digit number, clamped
ParseScoreAnyNumber(evaluation_text) ==
    IF evaluation_text = <<>> THEN DefaultScore
    ELSE LET text == Strip(evaluation_text)
             a == SearchOverall(text, 1)
             b == SearchSlash(text, 1)
             ps == {p \in 1..Len(text) : IsDigit(text[p])}
         IN  IF a.found THEN Clamp(a.val)
             ELSE IF b.found THEN Clamp(b.val)
             ELSE IF ps # {}
                  THEN LET p == CHOOSE x \in ps : \A y \in ps : x <= y
                       IN  Clamp(IntOf(text, p, DigitRun(text, p)))
             ELSE DefaultScore

_parse_score(evaluation_text) ==
    IF evaluation_text = <<>> THEN DefaultScore
    ELSE LET text == Strip(evaluation_text)
             a == SearchOverall(text, 1)
             b == SearchSlash(text, 1)
             c == SearchStandalone(text, 1)
         IN  IF a.found THEN Clamp(a.val)
             ELSE IF b.found THEN Clamp(b.val)
             ELSE IF c.found THEN Clamp(c.val)
             ELSE DefaultScore

(***************************************************************************)
(* Python values reaching the filter normalizers                           *)
(*   t = "none"  None            t = "str"   a string, s its characters    *)
(*   t = "list"  a list, l its elements (each a value with t, s)           *)
(*   t = "other" any other type (number, bool), s the characters of str(x) *)
(*   t = "absent" marks a key the mapping does not have                    *)
(***************************************************************************)
PyNone == [t |-> "none", s |-> <<>>, l |-> <<>>]
PyStr(s) == [t |-> "str", s |-> s, l |-> <<>>]
PyOther(s) == [t |-> "other", s |-> s, l |-> <<>>]
PyList(l) == [t |-> "list", s |-> <<>>, l |-> l]
Absent == [t |-> "absent", s |-> <<>>, l |-> <<>>]

ElemNone == [t |-> "none", s |-> <<>>]
ElemStr(s) == [t |-> "str", s |-> s]
ElemOther(s) == [t |-> "other", s |-> s]

\* str(v)
StrOf(v) == IF v.t = "none" THEN <<"None">> ELSE v.s

CanonKeys == {"dietary", "meal_time", "accessibility", "service_type", "special_needs"}
LegacyKeys == {"service", "special"}
AllKeys == CanonKeys \cup LegacyKeys

\* a dict (or None) as a function on AllKeys; null marks None
PyDict(d) == [null |-> FALSE, d |-> d]
NullDict == [null |-> TRUE, d |-> [k \in AllKeys |-> Absent]]
EmptyDict == [k \in AllKeys |-> Absent]

\* dict.get(k) and dict.get(k, default)
Get(d, k) == IF d[k].t = "absent" THEN PyNone ELSE d[k]
GetDefault(d, k, default) == IF d[k].t = "absent" THEN default ELSE d[k]
HasKey(d, k) == d[k].t # "absent"

\* truthiness of a dict or None
DictTruthy(f) == ~f.null /\ \E k \in AllKeys : HasKey(f.d, k)

NonBlank(v) == Strip(StrOf(v)) # <<>>
CleanElem(v) == ElemStr(Lower(Strip(StrOf(v))))

\* [str(v).strip().lower() for v in x if str(v).strip()]
CleanList(l) ==
    LET kept == SelectSeq(l, NonBlank) IN [k \in 1..Len(kept) |-> CleanElem(kept[k])]

\* _ensure_list with the strip() of the string branch left out
EnsureListNoStrip(x) ==
    IF x.t = "none" THEN PyList(<<>>)
    ELSE IF x.t = "list" THEN PyList(CleanList(x.l))
    ELSE IF x.t = "str"
         THEN IF x.s # <<>> THEN PyList(<<ElemStr(Lower(x.s))>>) ELSE PyList(<<>>)
    ELSE PyList(<<ElemStr(Lower(Strip(x.s)))>>)

\* orchestrator._ensure_list
_ensure_list(x) ==
    IF x.t = "none" THEN PyList(<<>>)
    ELSE IF x.t = "list" THEN PyList(CleanList(x.l))
    ELSE IF x.t = "str"
         THEN LET s == Strip(x.s) IN
              IF s # <<>> THEN PyList(<<ElemStr(Lower(s))>>) ELSE PyList(<<>>)
    ELSE PyList(<<ElemStr(Lower(Strip(x.s)))>>)

\* researcher._ensure_list
_ensure_list_researcher(value) ==
    IF value.t = "none" THEN PyList(<<>>)
    ELSE IF value.t = "list" THEN PyList(CleanList(value.l))
    ELSE IF value.t = "str"
         THEN LET v == Strip(value.s) IN
              IF v # <<>> THEN PyList(<<ElemStr(Lower(v))>>) ELSE PyList(<<>>)
    ELSE PyList(<<ElemStr(Lower(Strip(value.s)))>>)

\* orchestrator._normalize_filters
_normalize_filters(filters) ==
    LET f == IF DictTruthy(filters) THEN filters.d ELSE EmptyDict
        service_val == GetDefault(f, "service_type", Get(f, "service"))
        special_val == GetDefault(f, "special_needs", Get(f, "special"))
    IN  PyDict([k \in AllKeys |->
            CASE k = "service_type" -> _ensure_list(service_val)
              [] k = "special_needs" -> _ensure_list(special_val)
              [] k \in LegacyKeys -> Absent
              [] OTHER -> _ensure_list(Get(f, k))])

\* researcher._normalize_attribute_filters
_normalize_attribute_filters(attribute_filters) ==
    IF ~DictTruthy(attribute_filters)
    THEN PyDict([k \in AllKeys |-> IF k \in CanonKeys THEN PyList(<<>>) ELSE Absent])
    ELSE
    LET f == attribute_filters.d
        service_val == GetDefault(f, "service_type", Get(f, "service"))
        special_val == GetDefault(f, "special_needs", Get(f, "special"))
        svc == _ensure_list_researcher(service_val)
        sp == _ensure_list_researcher(special_val)
    IN  PyDict([k \in AllKeys |->
            CASE k = "service_type" ->
                    IF HasKey(f, "service") /\ svc.l = <<>>
                    THEN _ensure_list_researcher(Get(f, "service")) ELSE svc
              [] k = "special_needs" ->
                    IF HasKey(f, "special") /\ sp.l = <<>>
                    THEN _ensure_list_researcher(Get(f, "special")) ELSE sp
              [] k \in LegacyKeys -> Absent
              [] OTHER -> _ensure_list_researcher(Get(f, k))])

(***************************************************************************)
(* utils/analyst_clean.py: the "filters" member of the analysis            *)
(***************************************************************************)
\* _get_empty_analysis()["filters"]
_get_empty_analysis ==
    PyDict([k \in AllKeys |-> IF k \in CanonKeys THEN PyList(<<>>) ELSE Absent])

\* _fill_defaults on analysis["filters"]: setdefault(key, []) and None -> []
\* for the five keys; every other value and every other key is left as it is
_fill_defaults(filters) ==
    PyDict([k \in AllKeys |->
        IF k \in CanonKeys /\ filters[k].t \in {"absent", "none"}
        THEN PyList(<<>>) ELSE filters[k]])

\* a "filters" member that is null makes _fill_defaults throw (None has no
\* setdefault); the except clause returns the empty analysis
analyze_query_to_json(called, parsed, has_filters, filters) ==
    IF ~called \/ ~parsed THEN _get_empty_analysis
    ELSE IF ~has_filters THEN _fill_defaults(EmptyDict)
    ELSE IF filters.null THEN _get_empty_analysis
    ELSE _fill_defaults(filters.d)

(***************************************************************************)
(* AgentMessage (models/agent_message.py)                                  *)
(* confidence is written in hundredths (0.9 is 90).                        *)
(***************************************************************************)
\* AgentMessage.is_successful
is_successful(msg) == msg.status = "success" /\ msg.has_data

(***************************************************************************)
(* The restaurant store: two tables keyed by RESTAURANT_ID.                *)
(* GOLD_RESTAURANT_EMBEDDINGS holds every restaurant, listed here by       *)
(* descending similarity to the query; GOLD_RESTAURANTS_MASTER holds the   *)
(* detail row of a restaurant, one per id, for the ids in MasterIds.       *)
(* price 0 is a NULL PRICE_LEVEL.                                          *)
(***************************************************************************)
\* number of restaurants in the store
StoreSize == 23

\* LIMIT passed by orchestrator_agent to retriever_agent
TopK == 20

EmbeddingCols ==
    {"RESTAURANT_ID", "RESTAURANT_NAME", "CITY", "NEIGHBORHOOD", "PRIMARY_CUISINE",
     "PRICE_LEVEL", "OVERALL_SCORE", "RECOMMENDATION_TIER", "SAFETY_SCORE",
     "HEALTH_RISK_LEVEL", "NEAREST_STOP_DISTANCE_M", "SERVES_VEGETARIAN",
     "IS_WHEELCHAIR_ACCESSIBLE", "GOOD_FOR_GROUPS", "IS_CURRENTLY_OPEN",
     "SIMILARITY_SCORE"}

MasterCols ==
    {"RESTAURANT_ID", "STREET_ADDRESS", "PHONE", "YELP_RATING", "CITY", "LATITUDE",
     "LONGITUDE", "YELP_URL", "SERVES_BREAKFAST", "SERVES_LUNCH", "SERVES_DINNER",
     "SERVES_COFFEE", "GOOD_FOR_CHILDREN", "OUTDOOR_SEATING", "TAKEOUT", "DELIVERY",
     "ALLOWS_DOGS", "LIVE_MUSIC", "OPEN_NOW"}

\* DataFrame.merge(on='RESTAURANT_ID', how='left'): a column of both frames
\* other than the key is renamed with the suffixes _x and _y
MergedCols ==
    LET both == (EmbeddingCols \cap MasterCols) \ {"RESTAURANT_ID"} IN
    ((EmbeddingCols \cup MasterCols) \ both) \cup {"CITY_x", "CITY_y"}

MasterIds == {i \in 1..StoreSize : i # 6}

\* the boolean columns that are true for restaurant i
TrueFlags(i) ==
    {c \in {"SERVES_VEGETARIAN"} : i % 2 = 0}
    \cup {c \in {"IS_WHEELCHAIR_ACCESSIBLE"} : i % 3 # 0}
    \cup {c \in {"GOOD_FOR_GROUPS"} : i % 4 # 1}
    \cup {c \in {"SERVES_BREAKFAST"} : i % 3 = 1}
    \cup {c \in {"SERVES_LUNCH"} : TRUE}
    \cup {c \in {"SERVES_DINNER"} : i % 2 = 1}
    \cup {c \in {"SERVES_COFFEE"} : i % 7 = 0}
    \cup {c \in {"GOOD_FOR_CHILDREN"} : i % 3 = 2}
    \cup {c \in {"OUTDOOR_SEATING"} : i % 5 = 1}
    \cup {c \in {"TAKEOUT"} : i % 2 = 1}
    \cup {c \in {"DELIVERY"} : i % 4 = 0}
    \cup {c \in {"LIVE_MUSIC"} : i = 4}

Store ==
    [i \in 1..StoreSize |->
        [id |-> i,
         cuisine |-> IF i % 5 = 0 THEN "Thai" ELSE "Mexican",
         neighborhood |-> IF i % 2 = 0 THEN "Fenway" ELSE "Allston",
         similar |-> i # StoreSize,
         price |-> IF i = 10 THEN 0 ELSE (i % 4) + 1,
         overall |-> 60 + ((i * 7) % 29),
         safety |-> 40 + ((i * 13) % 59),
         flags |-> TrueFlags(i),
         coords |-> i \in MasterIds /\ i # 9,
         dist |-> 1 + ((i * 11) % 31)]]

\* a DataFrame: the ids of its rows in order, and its columns
NoFrame == [rows |-> <<>>, cols |-> {}]
FrameLen(df) == Len(df.rows)

\* x put into a sequence in ascending order of key, after the members whose
\* key is not greater
RECURSIVE InsertSorted(_, _, _)
InsertSorted(x, sorted, key) ==
    IF sorted = <<>> THEN <<x>>
    ELSE IF key[Head(sorted)] <= key[x]
         THEN <<Head(sorted)>> \o InsertSorted(x, Tail(sorted), key)
         ELSE <<x>> \o sorted

\* DataFrame.sort_values: the ids in ascending order of key, ties in their
\* original order
RECURSIVE SortIds(_, _)
SortIds(ids, key) ==
    IF ids = <<>> THEN <<>>
    ELSE InsertSorted(ids[Len(ids)], SortIds(SubSeq(ids, 1, Len(ids) - 1), key), key)

FirstN(seq, n) == SubSeq(seq, 1, Min2(n, Len(seq)))

(***************************************************************************)
(* agents/input_validator.py                                               *)
(* A query is given by what the checks of the validator read from it:      *)
(*   too_short  len(query.strip()) < 2        too_long  len(query) > 500   *)
(*   geo        "none": no disallowed location occurs as a whole word,     *)
(*              "cuisine": every one that occurs is exempted as a cuisine, *)
(*              "blocked": one occurs that is not exempted                 *)
(*   keyword    a word of the restaurant vocabulary occurs in it           *)
(***************************************************************************)
ValidatorFailed(error) ==
    [status |-> "failed", has_data |-> FALSE, confidence |-> 0, error |-> error]

\* the words of a model answer that hold the letters NO once upper-cased
WordsWithNo ==
    {"NO", "No", "no", "NOT", "Not", "not", "cannot", "know", "Unknown", "unknown",
     "None", "nothing"}

\* the answer compared with the word NO instead of searched for it
AnswerIsNo(result) == result = <<"NO">>

\* "NO" in answer or "NOT" in answer, answer = result.strip().upper()
AnswerHasNo(result) == \E k \in 1..Len(result) : result[k] \in WordsWithNo

\* len() of one symbol, in characters
CharLen(c) ==
    CASE c \in {" ", ",", ".", "x"} -> 1
      [] c \in {"in", "go"} -> 2
      [] c \in {"MIT", "mit", "new", "nyc"} -> 3
      [] c \in {"best", "near", "york", "food"} -> 4
      [] c \in {"pizza", "texas"} -> 5
      [] c \in {"hotels", "boston"} -> 6
      [] c \in {"chicago", "weather"} -> 7
      [] c \in {"cambodia", "Thailand", "thailand"} -> 8
      [] c = "cambodian" -> 9
      [] c = "restaurant" -> 10
      [] c = "marketplace" -> 11
      [] c = "x500" -> 500    \* a run of 500 letters x

\* len(s)
RECURSIVE StrLen(_)
StrLen(s) == IF s = <<>> THEN 0 ELSE CharLen(Head(s)) + StrLen(Tail(s))

\* needle in hay
Contains(hay, needle) ==
    \E k \in 1..(Len(hay) - Len(needle) + 1) :
        SubSeq(hay, k, k + Len(needle) - 1) = needle

StartsWith(s, prefix) == Len(prefix) <= Len(s) /\ SubSeq(s, 1, Len(prefix)) = prefix

EndsWith(s, suffix) ==
    Len(suffix) <= Len(s) /\ SubSeq(s, Len(s) - Len(suffix) + 1, Len(s)) = suffix

\* config.INVALID_LOCATIONS
INVALID_LOCATIONS ==
    {<<"alaska">>, <<"seattle">>, <<"portland", " ", "oregon">>,
     <<"new", " ", "york", " ", "city">>, <<"new", " ", "york">>, <<"nyc">>,
     <<"chicago">>, <<"los", " ", "angeles">>, <<"san", " ", "francisco">>,
     <<"miami">>, <<"texas">>, <<"california">>, <<"florida">>,
     <<"washington", " ", "state">>}

\* the locations exempted when the query asks for a cuisine
CuisineCountries ==
    {<<"cambodia">>, <<"thailand">>, <<"vietnam">>, <<"china">>, <<"japan">>,
     <<"korea">>, <<"france">>, <<"italy">>, <<"spain">>, <<"mexico">>}

expanded_invalid ==
    INVALID_LOCATIONS \cup CuisineCountries \cup
    {<<"canada">>, <<"new", " ", "york">>, <<"nyc">>, <<"san", " ", "francisco">>,
     <<"los", " ", "angeles">>, <<"chicago">>, <<"seattle">>, <<"miami">>,
     <<"austin">>, <<"denver">>}

cuisine_words == {"restaurant", "food", "cuisine", "place", "spot"}

\* config.RESTAURANT_KEYWORDS and the words added in the fallback
restaurant_keywords ==
    {"food", "restaurant", "eat", "dining", "dinner", "lunch", "breakfast",
     "cuisine", "mexican", "italian", "chinese", "thai", "indian", "pizza",
     "burger", "sushi", "cafe", "coffee", "vegan", "vegetarian", "place", "spot",
     "friendly", "caffe", "cofee", "cofe", "foosd", "fo0d", "fod", "resturant",
     "restarant", "eating", "meican", "near", "in", "at", "around"}

\* the words of the two lists found inside one lower-case symbol (kw in symbol)
Substrings(c) ==
    CASE c = "thailand" -> {"thai"}
      [] c = "restaurant" -> {"restaurant"}
      [] c = "marketplace" -> {"place"}
      [] c = "weather" -> {"eat", "at"}
      [] c = "food" -> {"food"}
      [] c = "pizza" -> {"pizza"}
      [] c = "near" -> {"near"}
      [] c = "in" -> {"in"}
      [] OTHER -> {}

\* any(word in query_lower for word in words)
AnyWordIn(words, query_lower) ==
    \E k \in 1..Len(query_lower) : Substrings(query_lower[k]) \cap words # {}

\* the whole-word test of the geographic loop
LocationOccurs(location, query_lower) ==
    \/ Contains(<<" ">> \o query_lower \o <<" ">>, <<" ">> \o location \o <<" ">>)
    \/ StartsWith(query_lower, location \o <<" ">>)
    \/ EndsWith(query_lower, <<" ">> \o location)

\* the exception granted to every location once a cuisine word is there
LocationExemptAny(location, query_lower) == AnyWordIn(cuisine_words, query_lower)

\* the exception of the geographic loop (continue)
LocationExempt(location, query_lower) ==
    location \in CuisineCountries /\ AnyWordIn(cuisine_words, query_lower)

\* what the checks of the validator read from the query text
QueryFacts(user_query) ==
    LET query_lower == Lower(user_query)
        found == {l \in expanded_invalid : LocationOccurs(l, query_lower)}
    IN  [too_short |-> StrLen(Strip(user_query)) < 2,
         too_long |-> StrLen(user_query) > 500,
         geo |-> IF \E l \in found : ~LocationExempt(l, query_lower) THEN "blocked"
                 ELSE IF found # {} THEN "cuisine" ELSE "none",
         keyword |-> AnyWordIn(restaurant_keywords, query_lower)]

input_validation_agent(query, result) ==
    IF query.too_short THEN ValidatorFailed("Query too short")
    ELSE IF query.too_long THEN ValidatorFailed("Query too long")
    ELSE IF query.geo = "blocked" THEN ValidatorFailed("Geographic restriction")
    ELSE IF result # <<>> /\ AnswerHasNo(result)
         THEN ValidatorFailed("Not a restaurant query")
    ELSE IF result = <<>> /\ ~query.keyword
         THEN ValidatorFailed("No restaurant keywords")
    ELSE [status |-> "success", has_data |-> TRUE, confidence |-> 95, error |-> ""]

(***************************************************************************)
(* agents/retriever.py                                                     *)
(***************************************************************************)
RetrieverFailed ==
    [status |-> "failed", has_data |-> FALSE, data |-> NoFrame, confidence |-> 0]

\* the location in force: search_area overrides the analyst's location
EffectiveArea(search_area, location) ==
    IF search_area.given THEN search_area ELSE location

\* WHERE clause of the similarity search for restaurant i
MatchesSearch(i, cuisine, area) ==
    LET row == Store[i]
        local == area.name = "Boston" \/ row.neighborhood = area.name
    IN  /\ row.similar
        /\ (cuisine # "" => row.cuisine = cuisine)
        /\ (area.name # "" /\ area.mode = "include_strict" => local)
        /\ (area.name # "" /\ area.mode = "exclude" => ~local)

AllIds == [i \in 1..StoreSize |-> i]

\* the search without its LIMIT
SearchRowsNoLimit(cuisine, area, top_k) ==
    LET Hit(i) == MatchesSearch(i, cuisine, area) IN SelectSeq(AllIds, Hit)

\* ORDER BY SIMILARITY_SCORE DESC LIMIT top_k
SearchRows(cuisine, area, top_k) ==
    LET Hit(i) == MatchesSearch(i, cuisine, area) IN FirstN(SelectSeq(AllIds, Hit), top_k)

\* sort_values('DISTANCE_FROM_USER_MI'): rows without coordinates last
DistanceKey == [i \in 1..StoreSize |-> IF Store[i].coords THEN Store[i].dist ELSE 1000]

retriever_agent(cuisine, search_area, location, user_location, top_k, store_up, master_up) ==
    IF ~store_up THEN RetrieverFailed
    ELSE
    LET area == EffectiveArea(search_area, location)
        found == SearchRows(cuisine, area, top_k)
        cols == IF master_up THEN MergedCols ELSE EmbeddingCols
        nearby == area.mode = "include_nearby" /\ area.name # ""
        measured == ~nearby /\ user_location.has_latitude /\ "LATITUDE" \in cols
    IN  IF Len(found) = 0 THEN RetrieverFailed
        ELSE [status |-> "success", has_data |-> TRUE, confidence |-> 90,
              data |-> IF measured
                       THEN [rows |-> SortIds(found, DistanceKey),
                             cols |-> cols \cup {"DISTANCE_FROM_USER_M",
                                                 "DISTANCE_FROM_USER_MI"}]
                       ELSE [rows |-> found, cols |-> cols]]

(***************************************************************************)
(* agents/researcher.py                                                    *)
(***************************************************************************)
ResearcherFailed(reason) ==
    [status |-> "failed", has_data |-> FALSE, data |-> NoFrame, confidence |-> 0,
     reason |-> reason, filters_too_strict |-> FALSE, initial_count |-> 0]

\* "token in slot" for a normalized slot
HasToken(f, slot, tokens) ==
    \E k \in 1..Len(f.d[slot].l) : f.d[slot].l[k].s \in tokens

\* the boolean column c is True in the row of restaurant i; the columns that
\* come from the master table are NaN for a restaurant without a master row
RowTrue(i, c) ==
    /\ c \in Store[i].flags
    /\ (c \in MasterCols \ EmbeddingCols => i \in MasterIds)

\* the attribute filters in the order the code applies them
FilterSteps ==
    << [slot |-> "dietary", tokens |-> {<<"vegetarian">>, <<"vegan">>},
        col |-> "SERVES_VEGETARIAN"],
       [slot |-> "meal_time", tokens |-> {<<"breakfast">>}, col |-> "SERVES_BREAKFAST"],
       [slot |-> "meal_time", tokens |-> {<<"lunch">>}, col |-> "SERVES_LUNCH"],
       [slot |-> "meal_time", tokens |-> {<<"dinner">>}, col |-> "SERVES_DINNER"],
       [slot |-> "accessibility", tokens |-> {<<"wheelchair">>},
        col |-> "IS_WHEELCHAIR_ACCESSIBLE"],
       [slot |-> "accessibility", tokens |-> {<<"groups">>, <<"group">>},
        col |-> "GOOD_FOR_GROUPS"],
       [slot |-> "accessibility", tokens |-> {<<"children">>, <<"kids">>, <<"family">>},
        col |-> "GOOD_FOR_CHILDREN"],
       [slot |-> "service_type", tokens |-> {<<"outdoor">>}, col |-> "OUTDOOR_SEATING"],
       [slot |-> "service_type", tokens |-> {<<"takeout">>}, col |-> "TAKEOUT"],
       [slot |-> "service_type", tokens |-> {<<"delivery">>}, col |-> "DELIVERY"],
       [slot |-> "service_type", tokens |-> {<<"reservations">>, <<"reservable">>},
        col |-> "RESERVABLE"],
       [slot |-> "special_needs", tokens |-> {<<"coffee_shop">>, <<"cafe">>},
        col |-> "SERVES_COFFEE"],
       [slot |-> "special_needs", tokens |-> {<<"pet_friendly">>, <<"dogs">>},
        col |-> "ALLOWS_DOGS"],
       [slot |-> "special_needs", tokens |-> {<<"live_music">>}, col |-> "LIVE_MUSIC"] >>

\* one attribute step applied whether or not the set has the column
ApplyStepAnyway(rows, cols, f, step) ==
    IF HasToken(f, step.slot, step.tokens)
    THEN LET Keep(i) == RowTrue(i, step.col) /\ step.col \in cols IN SelectSeq(rows, Keep)
    ELSE rows

\* one attribute step: results_df[results_df[col] == True], when asked for and
\* when the column exists
ApplyStep(rows, cols, f, step) ==
    IF HasToken(f, step.slot, step.tokens) /\ step.col \in cols
    THEN LET Keep(i) == RowTrue(i, step.col) IN SelectSeq(rows, Keep)
    ELSE rows

RECURSIVE ApplySteps(_, _, _, _)
ApplySteps(rows, cols, f, k) ==
    IF k > Len(FilterSteps) THEN rows
    ELSE ApplySteps(ApplyStep(rows, cols, f, FilterSteps[k]), cols, f, k + 1)

\* max_price: "Any", or a price tier
AnyPrice == [kind |-> "any", level |-> 0]
Tier(n) == [kind |-> "int", level |-> n]

\* the price step keeping the tiers below the ceiling only
PriceFilterBelow(rows, cols, max_price) ==
    IF max_price.kind = "int" /\ "PRICE_LEVEL" \in cols
    THEN LET Keep(i) == Store[i].price # 0 /\ Store[i].price < max_price.level
         IN  SelectSeq(rows, Keep)
    ELSE rows

\* max_price is "Any" (kind "any"), a tier (kind "int") or a value int()
\* rejects (kind "bad"); a NULL price fails the comparison
PriceFilter(rows, cols, max_price) ==
    IF max_price.kind = "int" /\ "PRICE_LEVEL" \in cols
    THEN LET Keep(i) == Store[i].price # 0 /\ Store[i].price <= max_price.level
         IN  SelectSeq(rows, Keep)
    ELSE rows

SafetyFilter(rows, cols, min_safety) ==
    IF min_safety > 0 /\ "SAFETY_SCORE" \in cols
    THEN LET Keep(i) == Store[i].safety >= min_safety IN SelectSeq(rows, Keep)
    ELSE rows

\* the sort in ascending order
OverallKeyAscending == [i \in 1..StoreSize |-> Store[i].overall]

\* sort_values("OVERALL_SCORE", ascending=False)
OverallKey == [i \in 1..StoreSize |-> 0 - Store[i].overall]

\* raises: some dataframe operation inside the try block throws
researcher_agent(retriever_msg, max_price, min_safety, attribute_filters, raises) ==
    IF ~is_successful(retriever_msg) THEN ResearcherFailed("retriever_failed")
    ELSE IF raises THEN ResearcherFailed("exception")
    ELSE IF FrameLen(retriever_msg.data) = 0 THEN ResearcherFailed("no_rows")
    ELSE
    LET cols == retriever_msg.data.cols
        initial_count == FrameLen(retriever_msg.data)
        priced == PriceFilter(retriever_msg.data.rows, cols, max_price)
        safe == SafetyFilter(priced, cols, min_safety)
        f == _normalize_attribute_filters(attribute_filters)
        kept == ApplySteps(safe, cols, f, 1)
    IN  IF Len(kept) = 0
        THEN [status |-> "partial", has_data |-> FALSE, data |-> NoFrame,
              confidence |-> 0, reason |-> "", filters_too_strict |-> TRUE,
              initial_count |-> initial_count]
        ELSE [status |-> "success", has_data |-> TRUE,
              data |-> [rows |-> IF "OVERALL_SCORE" \in cols
                                 THEN SortIds(kept, OverallKey) ELSE kept,
                        cols |-> cols],
              confidence |-> 90, reason |-> "", filters_too_strict |-> FALSE,
              initial_count |-> initial_count]

(***************************************************************************)
(* agents/writer.py and agents/reviewer.py                                 *)
(***************************************************************************)
WriterFailed(now) ==
    [status |-> "failed", has_data |-> FALSE, recommendation |-> <<>>, raised |-> FALSE,
     timestamp |-> now]

\* int(rest['PRICE_LEVEL']) throws on a NULL price among the top 5 rows
WriterRaises(researcher_msg) ==
    /\ is_successful(researcher_msg)
    /\ \E k \in 1..Min2(5, FrameLen(researcher_msg.data)) :
          Store[researcher_msg.data.rows[k]].price = 0

\* recommendation_text: what call_cortex returned (<<>> for None or "");
\* now: the creation time AgentMessage stamps on the message
writer_agent(researcher_msg, recommendation_text, now) ==
    IF ~is_successful(researcher_msg) THEN WriterFailed(now)
    ELSE IF WriterRaises(researcher_msg)
         THEN [status |-> "raised", has_data |-> FALSE, recommendation |-> <<>>,
               raised |-> TRUE, timestamp |-> now]
    ELSE IF recommendation_text # <<>>
         THEN [status |-> "success", has_data |-> TRUE,
               recommendation |-> recommendation_text, raised |-> FALSE,
               timestamp |-> now]
    ELSE WriterFailed(now)

\* reviewer._extract_text
_extract_text(writer_msg) ==
    IF ~is_successful(writer_msg) THEN <<>> ELSE Strip(writer_msg.recommendation)

\* the score, second component of reviewer_agent's result
reviewer_agent(writer_msg, raw_eval) ==
    IF ~is_successful(writer_msg) THEN 0
    ELSE IF _extract_text(writer_msg) = <<>> THEN 0
    ELSE _parse_score(raw_eval)


(***************************************************************************)
(* State                                                                   *)
(***************************************************************************)
VARIABLES
    evaluation_text,    \* _parse_score: the raw evaluation text
    parse_result,       \* _parse_score: [done, score]
    raw_filters,        \* normalizers: the filters as received
    norm_once,          \* normalizers: [done, o, r], each normalizer applied once
    norm_twice,         \* normalizers: [done, o, r], each applied to its own output
    analysis,           \* analyze_query_to_json: [done, filters]
    validation,         \* input_validation_agent on a worded query
    research,           \* researcher_agent on a candidate set, step by step
    followup,           \* execute_intent on a previous result set
    composed,           \* the query string last composed for the store
    pc,                 \* orchestrator_agent: the stage about to run
    args,               \* orchestrator_agent: its arguments
    norm_filters,       \* orchestrator_agent: _normalize_filters(filters)
    validator_msg,      \* the messages returned by the stages
    retriever_msg,
    researcher_msg,
    writer_msg,
    i,                  \* loop index of the for statement
    best_score,
    best_writer_msg,
    iters,              \* history: one record per loop iteration executed
    calls,              \* history: the stages invoked, in order
    shown,              \* history: the notices put on the page
    result              \* what orchestrator_agent returned

otherVars == <<validation, research, followup, composed>>
pureVars ==
    <<evaluation_text, parse_result, raw_filters, norm_once, norm_twice, analysis,
      otherVars>>
orchVars == <<pc, args, norm_filters, validator_msg, retriever_msg, researcher_msg,
              writer_msg, i, best_score, best_writer_msg, iters, calls, shown, result>>
vars == <<pureVars, orchVars>>

ParseIdle ==
    /\ evaluation_text = <<>>
    /\ parse_result = [done |-> FALSE, score |-> 0]

NormIdle ==
    /\ raw_filters = NullDict
    /\ norm_once = [done |-> FALSE, o |-> NullDict, r |-> NullDict]
    /\ norm_twice = [done |-> FALSE, o |-> NullDict, r |-> NullDict]
    /\ analysis = [done |-> FALSE, filters |-> NullDict]

ValidationIdle == validation = "idle"
ResearchIdle == research = "idle"
FollowupIdle == followup = "idle"
ComposedIdle == composed = "idle"
OthersIdle == ValidationIdle /\ ResearchIdle /\ FollowupIdle /\ ComposedIdle

\* placeholders for messages no stage has returned yet
NoValidatorMsg == [status |-> "none", has_data |-> FALSE, confidence |-> 0, error |-> ""]
NoRetrieverMsg == [status |-> "none", has_data |-> FALSE, data |-> NoFrame, confidence |-> 0]
NoResearcherMsg ==
    [status |-> "none", has_data |-> FALSE, data |-> NoFrame, confidence |-> 0,
     reason |-> "", filters_too_strict |-> FALSE, initial_count |-> 0]
\* best_writer_msg = None
NoWriterMsg ==
    [status |-> "none", has_data |-> FALSE, recommendation |-> <<>>, raised |-> FALSE,
     timestamp |-> 0]

NoResult ==
    [returned |-> FALSE, null |-> FALSE, recommendation |-> <<>>, quality_score |-> 0,
     researcher_data |-> NoFrame, retriever_data |-> NoFrame]
NullResult == [NoResult EXCEPT !.returned = TRUE, !.null = TRUE]

NoArgs ==
    [query |-> [too_short |-> FALSE, too_long |-> FALSE, geo |-> "none", keyword |-> FALSE],
     cuisine |-> "", location |-> [given |-> FALSE, name |-> "", mode |-> "none"],
     search_area |-> [given |-> FALSE, name |-> "", mode |-> "none"],
     user_location |-> [has_latitude |-> FALSE],
     max_price |-> [kind |-> "any", level |-> 0], budget_level |-> 0, min_safety |-> 0,
     max_iterations |-> 0, quality_threshold |-> 0, filters |-> NullDict]

OrchIdle ==
    /\ pc = "Idle"
    /\ args = NoArgs
    /\ norm_filters = NullDict
    /\ validator_msg = NoValidatorMsg
    /\ retriever_msg = NoRetrieverMsg
    /\ researcher_msg = NoResearcherMsg
    /\ writer_msg = NoWriterMsg
    /\ i = 0
    /\ best_score = 0
    /\ best_writer_msg = NoWriterMsg
    /\ iters = <<>>
    /\ calls = <<>>
    /\ shown = {}
    /\ result = NoResult

(***************************************************************************)
(* SpecParse: _parse_score applied to every text up to MaxTextLen symbols  *)
(***************************************************************************)
ParseAlphabet == {"OVERALL", "x", ":", " ", "/", "0", "1", "9"}

\* "OVERALL: 9", "Score: 11", "no numbers here", "OVERALL: 11"
TextOverall9 == <<"OVERALL", ":", " ", "9">>
TextScore11 == <<"Score", ":", " ", "1", "1">>
TextNoNumbers == <<"no", " ", "numbers", " ", "here">>
TextOverall11 == <<"OVERALL", ":", " ", "1", "1">>

ExampleTexts == {TextOverall9, TextScore11, TextNoNumbers, TextOverall11}

ParseInputs ==
    UNION {[1..n -> ParseAlphabet] : n \in 0..MaxTextLen} \cup ExampleTexts

InitParse ==
    /\ evaluation_text \in ParseInputs
    /\ parse_result = [done |-> FALSE, score |-> 0]
    /\ NormIdle
    /\ OthersIdle
    /\ OrchIdle

ParseScore ==
    /\ ~parse_result.done
    /\ parse_result' = [done |-> TRUE, score |-> _parse_score(evaluation_text)]
    /\ UNCHANGED <<evaluation_text, raw_filters, norm_once, norm_twice, analysis,
                   otherVars, orchVars>>

NextParse == ParseScore

SpecParse == InitParse /\ [][NextParse]_vars

(***************************************************************************)
(* SpecNorm: both normalizers applied once, then to their own output       *)
(***************************************************************************)
ListElems == {ElemNone, ElemStr(<<" ">>), ElemStr(<<" ", "Vegan">>), ElemOther(<<"5">>)}

ListValues == {PyList(l) : l \in UNION {[1..n -> ListElems] : n \in 0..MaxListLen}}

\* every shape a slot value takes: missing, null, string, list, other type
SlotValues ==
    {Absent, PyNone, PyStr(<<>>), PyStr(<<" ">>), PyStr(<<"Vegan", " ">>),
     PyStr(<<"outdoor">>), PyOther(<<"5">>)} \cup ListValues

AliasValues ==
    {Absent, PyNone, PyList(<<>>), PyStr(<<" ">>), PyStr(<<"OUTDOOR">>),
     PyList(<<ElemStr(<<"takeout">>)>>)}

RawFilters ==
    {NullDict} \cup
    {PyDict([k \in AllKeys |->
        CASE k = "dietary" -> d
          [] k = "meal_time" -> m
          [] k = "accessibility" -> Absent
          [] k = "service_type" -> st
          [] k = "service" -> sv
          [] k = "special_needs" -> sn
          [] k = "special" -> sl]) :
        d \in SlotValues, m \in {Absent, PyStr(<<"lunch">>)},
        st \in AliasValues, sv \in AliasValues,
        sn \in {Absent, PyNone}, sl \in {Absent, PyStr(<<"cafe">>)}}

InitNorm ==
    /\ raw_filters \in RawFilters
    /\ norm_once = [done |-> FALSE, o |-> NullDict, r |-> NullDict]
    /\ norm_twice = [done |-> FALSE, o |-> NullDict, r |-> NullDict]
    /\ analysis = [done |-> FALSE, filters |-> NullDict]
    /\ ParseIdle
    /\ OthersIdle
    /\ OrchIdle

Normalize ==
    /\ ~norm_once.done
    /\ norm_once' = [done |-> TRUE,
                     o |-> _normalize_filters(raw_filters),
                     r |-> _normalize_attribute_filters(raw_filters)]
    /\ UNCHANGED <<evaluation_text, parse_result, raw_filters, norm_twice, analysis,
                   otherVars, orchVars>>

NormalizeAgain ==
    /\ norm_once.done /\ ~norm_twice.done
    /\ norm_twice' = [done |-> TRUE,
                      o |-> _normalize_filters(norm_once.o),
                      r |-> _normalize_attribute_filters(norm_once.r)]
    /\ UNCHANGED <<evaluation_text, parse_result, raw_filters, norm_once, analysis,
                   otherVars, orchVars>>

\* analyze_query_to_json, raw_filters being the "filters" member of the JSON
\* the model returned: called: call_cortex returned text; parsed: json.loads
\* accepted it; has_filters: the JSON object has a "filters" member
AnalyzeQuery ==
    /\ ~analysis.done
    /\ \E called \in BOOLEAN, parsed \in BOOLEAN, has_filters \in BOOLEAN :
          analysis' = [done |-> TRUE,
                       filters |-> analyze_query_to_json(called, parsed, has_filters,
                                                         raw_filters)]
    /\ UNCHANGED <<evaluation_text, parse_result, raw_filters, norm_once, norm_twice,
                   otherVars, orchVars>>

NextNorm == Normalize \/ NormalizeAgain \/ AnalyzeQuery

SpecNorm == InitNorm /\ [][NextNorm]_vars

(***************************************************************************)
(* SpecValidate: input_validation_agent on worded queries                  *)
(***************************************************************************)
\* longest query enumerated, in symbols
MaxQueryLen == 5

QueryAlphabet ==
    {" ", ",", "cambodia", "Thailand", "chicago", "cambodian", "restaurant", "hotels"}

\* two letter runs never stand side by side: they would be one run
WellFormed(q) == \A k \in 1..(Len(q) - 1) : ~(IsWordChar(q[k]) /\ IsWordChar(q[k + 1]))

QueryPizzaNearMIT == <<"pizza", " ", "near", " ", "MIT">>
QueryBestHotels == <<"best", " ", "hotels", " ", "in", " ", "boston">>
QueryCambodianRestaurant == <<"cambodian", " ", "restaurant">>
QueryCambodia == <<"cambodia">>
QueryThailandFoodChicago == <<"Thailand", " ", "food", " ", "in", " ", "chicago">>

ExampleQueries ==
    {QueryPizzaNearMIT, QueryBestHotels, QueryCambodianRestaurant, QueryCambodia,
     QueryThailandFoodChicago,
     <<"new", " ", "york", " ", "pizza">>, <<"marketplace", " ", "in", " ", "cambodia">>,
     <<"weather", " ", "boston">>, <<"x500", " ", "pizza">>, <<"x500">>, <<"x">>,
     <<"go">>, <<"texas", ",", " ", "food">>}

Queries ==
    {q \in UNION {[1..n -> QueryAlphabet] : n \in 0..MaxQueryLen} : WellFormed(q)}
    \cup ExampleQueries

\* what the model answers to the intent check (<<>>: the call failed)
GateAnswers ==
    {<<>>, <<" ">>, <<"YES">>, <<"NO">>, <<"Yes", ".">>, <<"Not", " ", "sure">>,
     <<"It", " ", "is", " ", "sunny">>, <<"Unknown">>}

InitValidate ==
    /\ \E q \in Queries, a \in GateAnswers :
          validation = [query |-> q, answer |-> a, done |-> FALSE,
                        msg |-> NoValidatorMsg, payload |-> <<>>, llm_calls |-> 0]
    /\ ParseIdle
    /\ NormIdle
    /\ ResearchIdle
    /\ FollowupIdle
    /\ ComposedIdle
    /\ OrchIdle

\* the model asked whatever the basic checks found
GateAIgnored(facts) == TRUE

\* Gate A: the checks made before the model is asked
GateAPassed(facts) == ~facts.too_short /\ ~facts.too_long /\ facts.geo # "blocked"

\* input_validation_agent(user_query); the intent check is asked of the model
\* once, after the basic checks
ValidateQuery ==
    /\ ~validation.done
    /\ LET facts == QueryFacts(validation.query)
           msg == input_validation_agent(facts, validation.answer)
       IN  validation' = [validation EXCEPT
                             !.done = TRUE,
                             !.msg = msg,
                             !.payload = IF msg.has_data THEN validation.query ELSE <<>>,
                             !.llm_calls = IF GateAPassed(facts) THEN 1 ELSE 0]
    /\ UNCHANGED <<evaluation_text, parse_result, raw_filters, norm_once, norm_twice,
                   analysis, research, followup, composed, orchVars>>

NextValidate == ValidateQuery

SpecValidate == InitValidate /\ [][NextValidate]_vars

(***************************************************************************)
(* SpecResearch: researcher_agent on a candidate set                       *)
(***************************************************************************)
\* longest window of the store enumerated as a candidate set
MaxFrameLen == 4

\* ten rows with the price tiers 1,2,3,4,2,1,3,4,2,1
FrameTenTiers == <<4, 1, 2, 3, 5, 8, 6, 7, 9, 12>>

CandidateRows ==
    {SubSeq(AllIds, a, a + n - 1) : a \in 1..(StoreSize - MaxFrameLen), n \in 0..MaxFrameLen}
    \cup {FrameTenTiers, <<10, 9, 6, 5>>}

\* the columns of the set: with and without the master table's
CandidateCols == {EmbeddingCols, MergedCols}

ResearchFilters ==
    {NullDict,
     PyDict([EmptyDict EXCEPT !["dietary"] = PyList(<<ElemStr(<<"Vegan">>)>>)]),
     PyDict([EmptyDict EXCEPT !["dietary"] = PyStr(<<"vegetarian">>),
                              !["accessibility"] =
                                  PyList(<<ElemStr(<<"kids">>), ElemStr(<<"group">>)>>)]),
     PyDict([EmptyDict EXCEPT !["special_needs"] = PyList(<<ElemStr(<<"cafe">>)>>),
                              !["service"] = PyStr(<<"reservations">>)]),
     PyDict([EmptyDict EXCEPT !["accessibility"] = PyStr(<<"wheelchair">>),
                              !["service_type"] =
                                  PyList(<<ElemStr(<<"outdoor">>), ElemStr(<<"takeout">>)>>)]),
     PyDict([EmptyDict EXCEPT !["special_needs"] = PyList(<<ElemStr(<<"dogs">>)>>),
                              !["meal_time"] = PyStr(<<"dinner">>)])}

ResearchPrices == {AnyPrice, [kind |-> "bad", level |-> 0]} \cup {Tier(n) : n \in 1..4}

NoResearch ==
    [after_price |-> <<>>, after_safety |-> <<>>, after_attrs |-> <<>>,
     msg |-> NoResearcherMsg]

InitResearch ==
    /\ \E rows \in CandidateRows, cols \in CandidateCols, ok \in BOOLEAN,
          p \in ResearchPrices, m \in {0, 60}, f \in ResearchFilters :
          research = [retriever_msg |->
                          IF ok THEN [status |-> "success", has_data |-> TRUE,
                                      confidence |-> 90,
                                      data |-> [rows |-> rows, cols |-> cols]]
                          ELSE RetrieverFailed,
                      max_price |-> p, min_safety |-> m, filters |-> f,
                      done |-> FALSE, raised |-> FALSE, out |-> NoResearch]
    /\ ParseIdle
    /\ NormIdle
    /\ ValidationIdle
    /\ FollowupIdle
    /\ ComposedIdle
    /\ OrchIdle

\* researcher_agent(retriever_msg, max_price, min_safety, attribute_filters),
\* with the row sets it goes through on the way
RunResearcher ==
    /\ ~research.done
    /\ \E raises \in BOOLEAN :
        LET df == research.retriever_msg.data
            priced == PriceFilter(df.rows, df.cols, research.max_price)
            safe == SafetyFilter(priced, df.cols, research.min_safety)
            f == _normalize_attribute_filters(research.filters)
        IN  research' = [research EXCEPT
                !.done = TRUE,
                !.raised = raises,
                !.out = [after_price |-> priced,
                         after_safety |-> safe,
                         after_attrs |-> ApplySteps(safe, df.cols, f, 1),
                         msg |-> researcher_agent(research.retriever_msg,
                                                  research.max_price, research.min_safety,
                                                  research.filters, raises)]]
    /\ UNCHANGED <<evaluation_text, parse_result, raw_filters, norm_once, norm_twice,
                   analysis, validation, followup, composed, orchVars>>

NextResearch == RunResearcher

SpecResearch == InitResearch /\ [][NextResearch]_vars

(***************************************************************************)
(* execute_intent (agents/intent_agent .py): a follow-up on the rows of    *)
(* the previous search                                                     *)
(***************************************************************************)
MaxPrevLen == 6

\* a None or missing member of the intent dict
Null == "null"

\* the place names of the inputs, and for each the keys of the landmark
\* shortcuts and of BOSTON_NEIGHBORHOODS that occur in its lower-cased text
TargetNames ==
    {"Harvard Square", "MIT", "Smith Street", "Downtown Crossing", "Allston", "Paris"}

KeysIn ==
    [n \in TargetNames |->
        CASE n = "Harvard Square" -> {"harvard"}
          [] n = "MIT" -> {"mit"}
          [] n = "Smith Street" -> {"mit"}
          [] n = "Downtown Crossing" -> {"downtown"}
          [] n = "Allston" -> {"allston"}
          [] OTHER -> {}]

BOSTON_NEIGHBORHOODS ==
    <<"jamaica plain", "centre street", "center street", "roxbury", "dorchester",
      "south end", "north end", "back bay", "allston", "brighton", "charlestown",
      "cambridge", "somerville">>

NoCoords == [name |-> Null, point |-> Null]

\* geocode_location: the first neighbourhood whose key occurs in the name,
\* else the default Boston coordinates
geocode_location(location_name) ==
    LET hits == {k \in 1..Len(BOSTON_NEIGHBORHOODS) :
                    BOSTON_NEIGHBORHOODS[k] \in KeysIn[location_name]}
    IN  IF hits # {}
        THEN [name |-> location_name,
              point |-> BOSTON_NEIGHBORHOODS[CHOOSE k \in hits : \A j \in hits : k <= j]]
        ELSE [name |-> location_name, point |-> "DEFAULT_BOSTON"]

\* the target of find_closest: landmark shortcut, geocoding, the caller's
\* reference point, or none
TargetCoords(target_location, user_location) ==
    IF target_location \notin {Null, ""}
    THEN IF "harvard" \in KeysIn[target_location]
         THEN [name |-> "Harvard", point |-> "Harvard"]
         ELSE IF "mit" \in KeysIn[target_location]
         THEN [name |-> "MIT", point |-> "MIT"]
         ELSE IF "downtown" \in KeysIn[target_location]
         THEN [name |-> "Downtown", point |-> "Downtown"]
         ELSE geocode_location(target_location)
    ELSE IF user_location # Null
    THEN [name |-> user_location, point |-> "user"]
    ELSE NoCoords

Points ==
    <<"user", "Harvard", "MIT", "Downtown", "DEFAULT_BOSTON">> \o BOSTON_NEIGHBORHOODS

\* calculate_haversine_distance from a point to the coordinates of row id
HaversineFrom(point, id) ==
    IF point = "user" THEN Store[id].dist
    ELSE LET p == CHOOSE k \in 1..Len(Points) : Points[k] = point
         IN  1 + ((id * (2 * p + 1) + p) % 37)

NoCoordsDistance == 999999

\* CALC_DIST_M of every row: 999999 for a row with a null coordinate
CalcDistKey(point) ==
    [id \in 1..StoreSize |->
        IF Store[id].coords THEN HaversineFrom(point, id) ELSE NoCoordsDistance]

\* sort_values('PRICE_LEVEL'): ascending, NaN last
PriceKey == [id \in 1..StoreSize |-> IF Store[id].price = 0 THEN 5 ELSE Store[id].price]

\* sort_values('SAFETY_SCORE', ascending=False)
SafetyKey == [id \in 1..StoreSize |-> 0 - Store[id].safety]

IntentError(text) ==
    [kind |-> "error", action |-> Null, error |-> text, rows |-> <<>>,
     location |-> Null]
IntentResults(action, rows, location) ==
    [kind |-> "results", action |-> action, error |-> Null, rows |-> rows,
     location |-> location]
IntentSignal(action) ==
    [kind |-> "signal", action |-> action, error |-> Null, rows |-> <<>>,
     location |-> Null]

\* the branches of execute_intent on the extracted DataFrame, first match
\* first
ExecuteOn(intent, df, user_location) ==
    IF intent.intent_type = "find_closest"
    THEN LET target_coords == TargetCoords(intent.target_location, user_location) IN
         IF target_coords = NoCoords THEN IntentError("No location specified")
         ELSE IF {"LATITUDE", "LONGITUDE"} \subseteq df.cols
         THEN IntentResults("show_closest",
                            FirstN(SortIds(df.rows, CalcDistKey(target_coords.point)), 3),
                            target_coords.name)
         ELSE IntentError("No coordinates")
    ELSE IF intent.intent_type = "find_cheapest" \/ intent.sort_by = "price"
    THEN IntentResults("show_cheapest", FirstN(SortIds(df.rows, PriceKey), 5), Null)
    ELSE IF intent.intent_type = "find_safest" \/ intent.sort_by = "safety"
    THEN IntentResults("show_safest", FirstN(SortIds(df.rows, SafetyKey), 5), Null)
    ELSE IF intent.intent_type = "filter_by_attribute"
    THEN IntentResults("show_filtered",
                       FirstN(SortIds(df.rows,
                                      IF intent.sort_by = "safety" THEN SafetyKey
                                      ELSE IF intent.sort_by = "price" THEN PriceKey
                                      ELSE OverallKey), 5),
                       Null)
    ELSE IF intent.requires_new_search
    THEN IntentSignal("trigger_new_search")
    ELSE IntentSignal("unknown")

\* results = results_df: the caller's DataFrame object under another name
SameObject(name) == name

\* results = results_df.copy(): a new DataFrame object
NewCopy(name) == "results"

\* the caller's DataFrame once execute_intent returned: the column
\* assignments of find_closest act on the object bound to `results`;
\* sort_values and head return new objects
PreviousAfter(intent, df, user_location) ==
    LET results == NewCopy("results_df")
        assigns == /\ intent.intent_type = "find_closest"
                   /\ TargetCoords(intent.target_location, user_location) # NoCoords
                   /\ {"LATITUDE", "LONGITUDE"} \subseteq df.cols
    IN  IF assigns /\ results = "results_df"
        THEN [df EXCEPT !.cols = @ \cup {"CALC_DIST_M", "CALC_DIST_MI"}]
        ELSE df

\* previous_results once execute_intent returned
ResultsAfter(intent, previous_results, user_location) ==
    IF previous_results.shape \in {"researcher_data", "full_data", "DataFrame"}
    THEN [previous_results EXCEPT
             !.df = PreviousAfter(intent, previous_results.df, user_location)]
    ELSE previous_results

\* execute_intent(intent, previous_results, user_location); previous_results
\* is [shape, df]: a dict with researcher_data, a dict whose recommendation
\* has or lacks full_data, another dict, a DataFrame, or something else
execute_intent(intent, previous_results, user_location) ==
    IF previous_results.shape \in {"researcher_data", "full_data", "DataFrame"}
    THEN ExecuteOn(intent, previous_results.df, user_location)
    ELSE IF previous_results.shape = "recommendation"
    THEN IntentError("Cannot extract data")
    ELSE IF previous_results.shape = "dict"
    THEN IntentError("Invalid format")
    ELSE IntentError("Unexpected type")

(***************************************************************************)
(* Specification of one follow-up: an intent, the previous results and     *)
(* the caller's location are drawn, execute_intent runs once.              *)
(***************************************************************************)
\* what the researcher returns: rows in descending order of overall score
RankedIds == SortIds(AllIds, OverallKey)

PreviousRows ==
    {SubSeq(RankedIds, a, a + n - 1) : a \in 1..(StoreSize - MaxPrevLen), n \in 1..MaxPrevLen}

IntentTypes ==
    {"find_closest", "find_cheapest", "find_safest", "filter_by_attribute",
     "new_search", "compare", Null}

SortBys == {"distance", "price", "safety", "rating", Null}

Intents ==
    {[intent_type |-> t, sort_by |-> s, requires_new_search |-> r, target_location |-> l] :
        t \in IntentTypes, s \in SortBys, r \in BOOLEAN, l \in {Null}}
    \cup
    {[intent_type |-> "find_closest", sort_by |-> s, requires_new_search |-> FALSE,
      target_location |-> l] : s \in {"distance", "price", Null}, l \in TargetNames \cup {""}}

PreviousResults ==
    {[shape |-> "researcher_data", df |-> [rows |-> r, cols |-> c]] :
        r \in PreviousRows, c \in CandidateCols}
    \cup
    {[shape |-> s, df |-> [rows |-> SubSeq(RankedIds, 1, MaxPrevLen), cols |-> MergedCols]] :
        s \in {"full_data", "recommendation", "dict", "DataFrame", "other"}}

UserLocations == {Null, "Back Bay"}

NoFollowup ==
    [kind |-> "none", action |-> Null, error |-> Null, rows |-> <<>>, location |-> Null]

InitIntent ==
    /\ \E intent \in Intents, prev \in PreviousResults, u \in UserLocations :
          followup = [intent |-> intent, previous_results |-> prev, user_location |-> u,
                      done |-> FALSE, out |-> NoFollowup, after |-> prev]
    /\ ParseIdle
    /\ NormIdle
    /\ ValidationIdle
    /\ ResearchIdle
    /\ ComposedIdle
    /\ OrchIdle

\* one call of execute_intent; `after` is previous_results once it returned
ExecuteIntent ==
    /\ ~followup.done
    /\ followup' = [followup EXCEPT
            !.done = TRUE,
            !.out = execute_intent(followup.intent, followup.previous_results,
                                   followup.user_location),
            !.after = ResultsAfter(followup.intent, followup.previous_results,
                                   followup.user_location)]
    /\ UNCHANGED <<evaluation_text, parse_result, raw_filters, norm_once, norm_twice,
                   analysis, validation, research, composed, orchVars>>

NextIntent == ExecuteIntent

SpecIntent == InitIntent /\ [][NextIntent]_vars

(***************************************************************************)
(* Composition of the store's query strings (agents/retriever.py,          *)
(* utils/cortex_helper.py, agents/review_agent.py, utils/geo_utils.py,     *)
(* utils/restaurant_search.py).  A query is a sequence of pieces: the      *)
(* text of the f-string itself (origin "code") and the interpolated        *)
(* values, each with the argument it comes from.                           *)
(***************************************************************************)
MaxFieldLen == 2

Quote == "'"

\* the characters of the interpolated texts
FieldChars == {"a", Quote, " "}

Fields == UNION {[1..n -> FieldChars] : n \in 0..MaxFieldLen}

\* str.replace("'", "''")
RECURSIVE EscapeQuotes(_)
EscapeQuotes(s) ==
    IF s = <<>> THEN <<>>
    ELSE IF Head(s) = Quote THEN <<Quote, Quote>> \o EscapeQuotes(Tail(s))
    ELSE <<Head(s)>> \o EscapeQuotes(Tail(s))

\* str.title(): the first letter of every run of letters in upper case
Title(s) ==
    [k \in 1..Len(s) |->
        IF s[k] \in {"a", "A"}
        THEN IF k = 1 \/ s[k - 1] \notin {"a", "A"} THEN "A" ELSE "a"
        ELSE s[k]]

Code(text) == [origin |-> "code", text |-> <<text>>]
Value(origin, text) == [origin |-> origin, text |-> text]

\* retriever_agent: the conditions on cuisine and location
CuisineCondition(cuisine) ==
    IF cuisine = <<>> THEN <<>>
    ELSE <<Code("AND PRIMARY_CUISINE = '"), Value("cuisine", cuisine), Code("'")>>

NeighborhoodCondition(location_name, location_mode) ==
    IF location_name = <<>> THEN <<>>
    ELSE LET loc == Strip(EscapeQuotes(location_name))
             loc_title == Title(loc)
             either == <<Code("CITY ILIKE '"), Value("location_name", loc_title),
                         Code("' OR NEIGHBORHOOD ILIKE '"),
                         Value("location_name", loc_title), Code("%'")>>
         IN  IF location_mode = "include_strict"
             THEN <<Code("AND (")>> \o either \o <<Code(")")>>
             ELSE IF location_mode = "exclude"
             THEN <<Code("AND NOT (")>> \o either \o <<Code(")")>>
             ELSE <<>>

\* retriever_agent: search_query
SearchQuery(user_query, cuisine, location_name, location_mode) ==
    <<Code("SELECT ... EMBED_TEXT_768('snowflake-arctic-embed-m', '"),
      Value("user_query", EscapeQuotes(user_query)),
      Code("') ... WHERE DESCRIPTION_EMBEDDING IS NOT NULL")>>
    \o CuisineCondition(cuisine)
    \o NeighborhoodCondition(location_name, location_mode)
    \o <<Code("AND SIMILARITY_SCORE > 0.3 ORDER BY SIMILARITY_SCORE DESC LIMIT top_k")>>

\* retriever_agent: detail_query over the ids of the rows found
RECURSIVE RestaurantContext(_)
RestaurantContext(ids) ==
    IF ids = <<>> THEN <<>>
    ELSE <<Code("'"), Value("restaurant_id", Head(ids)), Code("'")>>
         \o (IF Tail(ids) = <<>> THEN <<>> ELSE <<Code(", ")>>)
         \o RestaurantContext(Tail(ids))

DetailQuery(ids) ==
    <<Code("SELECT ... WHERE RESTAURANT_ID IN (")>> \o RestaurantContext(ids)
    \o <<Code(")")>>

\* call_cortex
CortexQuery(prompt) ==
    <<Code("SELECT SNOWFLAKE.CORTEX.COMPLETE('mistral-large', '"),
      Value("prompt", EscapeQuotes(prompt)), Code("') as response")>>

\* get_restaurant_reviews, and the restaurant's stop in get_mbta_route
ReviewsQuery(restaurant_id) ==
    <<Code("SELECT ... WHERE RESTAURANT_ID = '"), Value("restaurant_id", restaurant_id),
      Code("' ...")>>

\* search_restaurant_by_name
NameSearchQuery(restaurant_name) ==
    <<Code("SELECT ... WHERE RESTAURANT_NAME ILIKE '%"),
      Value("restaurant_name", EscapeQuotes(restaurant_name)),
      Code("%' ... UPPER('"),
      Value("restaurant_name", EscapeQuotes(restaurant_name)),
      Code("') ... ILIKE '"),
      Value("restaurant_name", EscapeQuotes(restaurant_name)),
      Code("%' ... LIMIT 5")>>

(***************************************************************************)
(* Specification of one query string: some call site composes its query   *)
(* from any texts; `composed` is the query handed to session.sql.          *)
(***************************************************************************)
LocationModes == {"none", "include_strict", "include_nearby", "exclude"}

NoQuery == [site |-> "none", query |-> <<>>]

InitQuery ==
    /\ composed = NoQuery
    /\ ParseIdle
    /\ NormIdle
    /\ ValidationIdle
    /\ ResearchIdle
    /\ FollowupIdle
    /\ OrchIdle

ComposeSearch ==
    /\ composed = NoQuery
    /\ \E user_query \in Fields, cuisine \in Fields, location_name \in Fields,
          location_mode \in LocationModes :
          composed' = [site |-> "retriever.search_query",
                       query |-> SearchQuery(user_query, cuisine, location_name,
                                             location_mode)]
    /\ UNCHANGED <<evaluation_text, parse_result, raw_filters, norm_once, norm_twice,
                   analysis, validation, research, followup, orchVars>>

ComposeDetail ==
    /\ composed = NoQuery
    /\ \E id1 \in Fields, id2 \in Fields, n \in 1..2 :
          composed' = [site |-> "retriever.detail_query",
                       query |-> DetailQuery(SubSeq(<<id1, id2>>, 1, n))]
    /\ UNCHANGED <<evaluation_text, parse_result, raw_filters, norm_once, norm_twice,
                   analysis, validation, research, followup, orchVars>>

ComposeCortex ==
    /\ composed = NoQuery
    /\ \E prompt \in Fields :
          composed' = [site |-> "call_cortex", query |-> CortexQuery(prompt)]
    /\ UNCHANGED <<evaluation_text, parse_result, raw_filters, norm_once, norm_twice,
                   analysis, validation, research, followup, orchVars>>

ComposeReviews ==
    /\ composed = NoQuery
    /\ \E restaurant_id \in Fields :
          composed' = [site |-> "get_restaurant_reviews",
                       query |-> ReviewsQuery(restaurant_id)]
    /\ UNCHANGED <<evaluation_text, parse_result, raw_filters, norm_once, norm_twice,
                   analysis, validation, research, followup, orchVars>>

ComposeNameSearch ==
    /\ composed = NoQuery
    /\ \E restaurant_name \in Fields :
          composed' = [site |-> "search_restaurant_by_name",
                       query |-> NameSearchQuery(restaurant_name)]
    /\ UNCHANGED <<evaluation_text, parse_result, raw_filters, norm_once, norm_twice,
                   analysis, validation, research, followup, orchVars>>

NextQuery ==
    \/ ComposeSearch
    \/ ComposeDetail
    \/ ComposeCortex
    \/ ComposeReviews
    \/ ComposeNameSearch

SpecQuery == InitQuery /\ [][NextQuery]_vars

(***************************************************************************)
(* Spec: one run of orchestrator_agent                                     *)
(***************************************************************************)
\* largest max_iterations enumerated
MaxIterations == 3

QueryOk == [too_short |-> FALSE, too_long |-> FALSE, geo |-> "none", keyword |-> TRUE]
QueryNoKeyword == [QueryOk EXCEPT !.keyword = FALSE]
QueryCuisine == [QueryOk EXCEPT !.geo = "cuisine"]
QueryBlocked == [QueryOk EXCEPT !.geo = "blocked"]
QueryShort == [QueryOk EXCEPT !.too_short = TRUE, !.keyword = FALSE]
QueryLong == [QueryOk EXCEPT !.too_long = TRUE]

NoArea == [given |-> FALSE, name |-> "", mode |-> "none"]
Area(name, mode) == [given |-> TRUE, name |-> name, mode |-> mode]

Filters(dietary, accessibility, service, special_needs) ==
    PyDict([k \in AllKeys |->
        CASE k = "dietary" -> dietary
          [] k = "accessibility" -> accessibility
          [] k = "service" -> service
          [] k = "special_needs" -> special_needs
          [] OTHER -> Absent])

Request(query, cuisine, location, search_area, located, max_price, budget, min_safety, filters) ==
    [query |-> query, cuisine |-> cuisine, location |-> location,
     search_area |-> search_area, user_location |-> [has_latitude |-> located],
     max_price |-> max_price, budget_level |-> budget, min_safety |-> min_safety,
     filters |-> filters]

Requests ==
    { Request(QueryOk, "", NoArea, NoArea, TRUE, AnyPrice, 0, 0, NullDict),
      Request(QueryOk, "Thai", NoArea, NoArea, FALSE, AnyPrice, 0, 0, NullDict),
      Request(QueryOk, "Thai", NoArea, NoArea, FALSE, AnyPrice, 2, 0,
              Filters(PyList(<<>>), Absent, Absent, PyNone)),
      Request(QueryCuisine, "Mexican", Area("Allston", "exclude"),
              Area("Fenway", "include_strict"), TRUE, Tier(4), 0, 0,
              Filters(PyList(<<ElemStr(<<" ", "Vegan">>)>>), Absent,
                      PyStr(<<"OUTDOOR">>), Absent)),
      Request(QueryOk, "Thai", NoArea, NoArea, FALSE, Tier(3), 0, 0,
              Filters(Absent, Absent, Absent, PyStr(<<"pet_friendly">>))),
      Request(QueryOk, "Ethiopian", NoArea, NoArea, TRUE, AnyPrice, 0, 0, NullDict),
      Request(QueryNoKeyword, "", Area("MIT", "include_nearby"), NoArea, TRUE,
              [kind |-> "bad", level |-> 0], 0, 60,
              Filters(Absent, PyList(<<ElemStr(<<"wheelchair">>), ElemStr(<<"kids">>)>>),
                      Absent, Absent)),
      Request(QueryBlocked, "Mexican", NoArea, NoArea, FALSE, AnyPrice, 0, 0, NullDict),
      Request(QueryShort, "", NoArea, NoArea, FALSE, AnyPrice, 0, 0, NullDict),
      Request(QueryLong, "", NoArea, NoArea, FALSE, AnyPrice, 0, 0, NullDict) }

Thresholds == {5, 8}

\* what the model returns to the validator's intent check (<<>>: the call failed)
IntentAnswers == {<<>>, <<"YES">>, <<"NO">>, <<"Sure">>}

\* what the model returns to the writer (<<>>: the call failed)
WriterTexts == {<<>>, <<" ">>, <<"Try", " ", "Taqueria">>}

\* what the model returns to the reviewer (<<>>: the call failed)
ReviewTexts ==
    {<<>>, <<"OVERALL", ":", " ", "3">>, <<"OVERALL", ":", " ", "4">>,
     <<"OVERALL", ":", " ", "5">>, TextOverall9}

\* the state of orchestrator_agent on entry
InitRun ==
    /\ pc = "Validating"
    /\ \E r \in Requests, n \in 0..MaxIterations, q \in Thresholds :
          args = [query |-> r.query, cuisine |-> r.cuisine, location |-> r.location,
                  search_area |-> r.search_area, user_location |-> r.user_location,
                  max_price |-> r.max_price, budget_level |-> r.budget_level,
                  min_safety |-> r.min_safety, max_iterations |-> n,
                  quality_threshold |-> q, filters |-> r.filters]
    /\ norm_filters = _normalize_filters(args.filters)
    /\ validator_msg = NoValidatorMsg
    /\ retriever_msg = NoRetrieverMsg
    /\ researcher_msg = NoResearcherMsg
    /\ writer_msg = NoWriterMsg
    /\ i = 0
    /\ best_score = 0
    /\ best_writer_msg = NoWriterMsg
    /\ iters = <<>>
    /\ calls = <<>>
    /\ shown = {}
    /\ result = NoResult

Init ==
    /\ ParseIdle
    /\ NormIdle
    /\ OthersIdle
    /\ InitRun

\* 1) INPUT VALIDATION
Validate ==
    /\ pc = "Validating"
    /\ \E answer \in IntentAnswers :
          validator_msg' = input_validation_agent(args.query, answer)
    /\ calls' = Append(calls, "validator")
    /\ IF is_successful(validator_msg')
       THEN /\ pc' = "Retrieving"
            /\ UNCHANGED <<shown, result>>
       ELSE /\ pc' = "Done"
            /\ shown' = shown \cup {"validator_warning", "suggestion"}
            /\ result' = NullResult
    /\ UNCHANGED <<pureVars, args, norm_filters, retriever_msg, researcher_msg,
                   writer_msg, i, best_score, best_writer_msg, iters>>

\* _safe_len
_safe_len(msg) == IF msg.has_data THEN FrameLen(msg.data) ELSE 0

\* the retriever's outcome not looked at
RetrieverGateOpen(msg) == FALSE

\* if not retriever_msg or not retriever_msg.is_successful() or _safe_len(...) == 0
RetrieverGateFails(msg) == ~is_successful(msg) \/ _safe_len(msg) = 0

\* 2) RETRIEVER
Retrieve ==
    /\ pc = "Retrieving"
    /\ \E store_up \in BOOLEAN, master_up \in BOOLEAN :
          retriever_msg' = retriever_agent(args.cuisine, args.search_area, args.location,
                                           args.user_location, TopK, store_up, master_up)
    /\ calls' = Append(calls, "retriever")
    /\ IF RetrieverGateFails(retriever_msg')
       THEN /\ pc' = "Done"
            /\ shown' = shown \cup {"retriever_failed"}
            /\ result' = NullResult
       ELSE /\ pc' = "Filtering"
            /\ UNCHANGED <<shown, result>>
    /\ UNCHANGED <<pureVars, args, norm_filters, validator_msg, researcher_msg,
                   writer_msg, i, best_score, best_writer_msg, iters>>

\* max_price after "use budget from analyst if available"
EffectiveMaxPrice(a) ==
    IF a.budget_level # 0 /\ a.max_price.kind = "any"
    THEN [kind |-> "int", level |-> a.budget_level] ELSE a.max_price

\* the zero-results check left out
ZeroResultsNever(msg) == FALSE

\* if num_results == 0
ZeroResults(msg) == _safe_len(msg) = 0

\* 3) RESEARCHER and 4) HANDLE ZERO RESULTS
Research ==
    /\ pc = "Filtering"
    /\ \E raises \in BOOLEAN :
          researcher_msg' = researcher_agent(retriever_msg, EffectiveMaxPrice(args),
                                             args.min_safety, norm_filters, raises)
    /\ calls' = Append(calls, "researcher")
    /\ IF ZeroResults(researcher_msg')
       THEN /\ pc' = "Done"
            /\ shown' = shown \cup {"zero_results_warning", "active_filters",
                                    "relaxation_suggestions"}
            /\ result' = NullResult
            /\ UNCHANGED <<i, best_score, best_writer_msg>>
       ELSE /\ pc' = "Iterating"
            /\ i' = 0
            /\ best_score' = -1
            /\ best_writer_msg' = NoWriterMsg
            /\ UNCHANGED <<shown, result>>
    /\ UNCHANGED <<pureVars, args, norm_filters, validator_msg, retriever_msg,
                   writer_msg, iters>>

\* a writer failure ending the loop
BreakLoop == "Returning"

\* continue: back to the head of the for statement
Continue == "Iterating"

\* 5) the writer call of iteration i+1
WriterCall ==
    /\ pc = "Iterating"
    /\ i < args.max_iterations
    /\ \E text \in WriterTexts :
          writer_msg' = writer_agent(researcher_msg, text, Len(calls) + 1)
    /\ calls' = Append(calls, "writer")
    /\ IF writer_msg'.raised
       THEN /\ pc' = "Raised"
            /\ UNCHANGED <<i, iters, shown>>
       ELSE IF ~is_successful(writer_msg')
       THEN /\ pc' = Continue
            /\ i' = i + 1
            /\ iters' = Append(iters, [writer_ok |-> FALSE, reviewed |-> FALSE,
                                       score |-> 0, text |-> <<>>,
                                       stamp |-> writer_msg'.timestamp,
                                       last_call |-> Len(calls) + 1])
            /\ shown' = shown \cup {"writer_failed"}
       ELSE /\ pc' = "Reviewing"
            /\ UNCHANGED <<i, iters, shown>>
    /\ UNCHANGED <<pureVars, args, norm_filters, validator_msg, retriever_msg,
                   researcher_msg, best_score, best_writer_msg, result>>

\* if score > best_score, with >= in place of >
BetterOrEqual(score, best) == score >= best

\* if score > best_score
Better(score, best) == score > best

\* the loop going on after a passing score
PassesNever(score, threshold) == FALSE

\* if score >= quality_threshold
Passes(score, threshold) == score >= threshold

\* 5) the reviewer call of iteration i+1 and the rest of the loop body
ReviewerCall ==
    /\ pc = "Reviewing"
    /\ \E raw_eval \in ReviewTexts :
        LET score == reviewer_agent(writer_msg, raw_eval) IN
        /\ iters' = Append(iters, [writer_ok |-> TRUE, reviewed |-> TRUE,
                                   score |-> score, text |-> writer_msg.recommendation,
                                   stamp |-> writer_msg.timestamp,
                                   last_call |-> Len(calls) + 1])
        /\ IF Better(score, best_score)
           THEN best_score' = score /\ best_writer_msg' = writer_msg
           ELSE UNCHANGED <<best_score, best_writer_msg>>
        /\ IF Passes(score, args.quality_threshold)
           THEN pc' = "Returning" /\ UNCHANGED i
           ELSE pc' = "Iterating" /\ i' = i + 1
    /\ calls' = Append(calls, "reviewer")
    /\ UNCHANGED <<pureVars, args, norm_filters, validator_msg, retriever_msg,
                   researcher_msg, writer_msg, shown, result>>

\* 6) RETURN RESULTS, after the loop ended by exhaustion or by break
Return ==
    /\ \/ pc = "Returning"
       \/ pc = "Iterating" /\ i >= args.max_iterations
    /\ pc' = "Done"
    /\ result' = IF best_writer_msg = NoWriterMsg
                 THEN NullResult
                 ELSE [returned |-> TRUE, null |-> FALSE,
                       recommendation |-> best_writer_msg.recommendation,
                       quality_score |-> best_score,
                       researcher_data |-> researcher_msg.data,
                       retriever_data |-> retriever_msg.data]
    /\ UNCHANGED <<pureVars, args, norm_filters, validator_msg, retriever_msg,
                   researcher_msg, writer_msg, i, best_score, best_writer_msg, iters,
                   calls, shown>>

Next == Validate \/ Retrieve \/ Research \/ WriterCall \/ ReviewerCall \/ Return

Spec == Init /\ [][Next]_vars

(***************************************************************************)
(* Specification of a session (streamlit_app.py): one run of               *)
(* orchestrator_agent, whose result is kept as last_search_results, then   *)
(* one follow-up question executed on it.                                  *)
(***************************************************************************)
FollowUpIntents ==
    {x \in Intents : /\ x.sort_by = Null
                     /\ ~x.requires_new_search
                     /\ x.target_location \in {Null, "MIT"}}

NoIntent ==
    [intent_type |-> Null, sort_by |-> Null, requires_new_search |-> FALSE,
     target_location |-> Null]

NoPrevious == [shape |-> "none", df |-> NoFrame]

InitSession ==
    /\ ParseIdle
    /\ NormIdle
    /\ ValidationIdle
    /\ ResearchIdle
    /\ ComposedIdle
    /\ followup = [intent |-> NoIntent, previous_results |-> NoPrevious,
                   user_location |-> Null, done |-> FALSE, out |-> NoFollowup,
                   after |-> NoPrevious]
    /\ InitRun

\* the follow-up box: shown once a search left results, it runs
\* execute_intent on st.session_state.last_search_results
FollowUp ==
    /\ pc = "Done"
    /\ result.returned /\ ~result.null
    /\ ~followup.done
    /\ \E intent \in FollowUpIntents :
          LET last_search_results ==
                  [shape |-> "researcher_data", df |-> result.researcher_data]
              user_location == IF args.user_location.has_latitude THEN "Back Bay" ELSE Null
          IN  followup' = [intent |-> intent,
                           previous_results |-> last_search_results,
                           user_location |-> user_location,
                           done |-> TRUE,
                           out |-> execute_intent(intent, last_search_results,
                                                  user_location),
                           after |-> ResultsAfter(intent, last_search_results,
                                                  user_location)]
    /\ UNCHANGED <<evaluation_text, parse_result, raw_filters, norm_once, norm_twice,
                   analysis, validation, research, composed, orchVars>>

NextSession ==
    \/ Validate
    \/ Retrieve
    \/ Research
    \/ WriterCall
    \/ ReviewerCall
    \/ Return
    \/ FollowUp

SpecSession == InitSession /\ [][NextSession]_vars

(***************************************************************************)
(* Claims about orchestrator_agent (checked under Spec)                    *)
(***************************************************************************)
Terminal == pc \in {"Done", "Raised"}

Scores == [k \in 1..Len(iters) |-> iters[k].score]

Reviewed == {k \in 1..Len(iters) : iters[k].reviewed}

\* C1: the first iteration whose reviewer score reaches quality_threshold is
\* the last one executed: no writer or reviewer call follows it, and the
\* quality_score returned is that iteration's score.
C1_EarlyStop ==
    \A k \in Reviewed :
        iters[k].score >= args.quality_threshold =>
            /\ k = Len(iters)
            /\ Len(calls) = iters[k].last_call
            /\ pc \in {"Returning", "Done"}
            /\ pc = "Done" => /\ result.returned /\ ~result.null
                              /\ result.quality_score = iters[k].score

\* scores 5, 9 seen with three iterations allowed and threshold 8: stopped
\* after iteration 2 with best score 9
C1_Witness ==
    /\ pc = "Done"
    /\ args.max_iterations = 3 /\ args.quality_threshold = 8
    /\ Scores = <<5, 9>>
    /\ result.quality_score = 9

\* C2: when no score reaches the threshold and some writer call succeeded,
\* exactly max_iterations iterations run and the result is non-null, carries
\* the maximum score and the narrative of the earliest iteration attaining it.
C2_BestOnExhaustion ==
    (/\ pc = "Done"
     /\ \E k \in 1..Len(iters) : iters[k].writer_ok
     /\ \A k \in Reviewed : iters[k].score < args.quality_threshold)
    => /\ Len(iters) = args.max_iterations
       /\ result.returned /\ ~result.null
       /\ \A k \in Reviewed : iters[k].score <= result.quality_score
       /\ \E k \in Reviewed :
             /\ iters[k].score = result.quality_score
             /\ \A j \in Reviewed : j < k => iters[j].score < iters[k].score
             /\ result.recommendation = iters[k].text
             /\ best_writer_msg.timestamp = iters[k].stamp

\* scores 4, 5 with two iterations allowed and threshold 8: both ran, the
\* second one's output came back with score 5
C2_Witness ==
    /\ pc = "Done"
    /\ args.max_iterations = 2 /\ args.quality_threshold = 8
    /\ Scores = <<4, 5>>
    /\ result.quality_score = 5
    /\ best_writer_msg.timestamp = iters[2].stamp

\* a step in which the writer is called and returns a failed message
WriterFailedStep ==
    /\ pc = "Iterating"
    /\ calls' = Append(calls, "writer")
    /\ ~writer_msg'.raised
    /\ ~is_successful(writer_msg')

\* C3: an iteration whose writer call fails leaves best_score and
\* best_writer_msg unchanged, makes no reviewer call (the reviewer only ever
\* runs on the successful message the writer just returned) and moves on to
\* the next iteration without ending the run.
C3_WriterFailureSkips ==
    [][/\ WriterFailedStep =>
            /\ best_score' = best_score
            /\ best_writer_msg' = best_writer_msg
            /\ pc' = "Iterating" /\ i' = i + 1
            /\ ~result'.returned
            /\ Len(iters') = Len(iters) + 1
            /\ ~iters'[Len(iters')].reviewed
       /\ (calls' # calls /\ calls'[Len(calls')] = "reviewer") =>
            /\ calls[Len(calls)] = "writer"
            /\ is_successful(writer_msg)
            /\ writer_msg.timestamp = Len(calls)]_vars

\* a failed writer call was followed by a successful one that was reviewed
C3_Witness ==
    /\ Len(iters) >= 2
    /\ ~iters[1].writer_ok
    /\ iters[2].reviewed
    /\ best_writer_msg.timestamp = iters[2].stamp

GatesPassed ==
    /\ is_successful(validator_msg)
    /\ is_successful(retriever_msg) /\ FrameLen(retriever_msg.data) >= 1
    /\ researcher_msg.has_data /\ FrameLen(researcher_msg.data) >= 1

\* C4 as stated: past the three gates the run returns null exactly when no
\* iteration produced a successful writer output, and a result record in every
\* other case.
C4_AsStated ==
    (Terminal /\ GatesPassed) =>
        /\ result.returned
        /\ result.null <=> ~(\E k \in 1..Len(iters) : iters[k].writer_ok)

Occurs(stage) == \E k \in 1..Len(calls) : calls[k] = stage

\* C5: the stages run forward and gated: the retriever only after a successful
\* validation, the researcher only after a successful retrieval of at least one
\* row, the writer only after the researcher returned at least one row; a
\* failed gate returns null and no later stage is invoked.
C5_GatedStages ==
    /\ Occurs("retriever") => is_successful(validator_msg)
    /\ Occurs("researcher") =>
          is_successful(retriever_msg) /\ FrameLen(retriever_msg.data) >= 1
    /\ Occurs("writer") => researcher_msg.has_data /\ FrameLen(researcher_msg.data) >= 1
    /\ \A k \in 1..Len(calls) :
          /\ calls[k] = "validator" <=> k = 1
          /\ calls[k] = "retriever" <=> k = 2
          /\ calls[k] = "researcher" <=> k = 3
    /\ (validator_msg.status # "none" /\ ~is_successful(validator_msg)) =>
          pc = "Done" /\ result = NullResult /\ calls = <<"validator">>
    /\ (retriever_msg.status # "none"
        /\ (~is_successful(retriever_msg) \/ FrameLen(retriever_msg.data) = 0)) =>
          pc = "Done" /\ result = NullResult /\ calls = <<"validator", "retriever">>
    /\ (researcher_msg.status # "none"
        /\ (~researcher_msg.has_data \/ FrameLen(researcher_msg.data) = 0)) =>
          /\ pc = "Done" /\ result = NullResult
          /\ calls = <<"validator", "retriever", "researcher">>

\* a run stopped at the retriever gate, the store being down or empty-handed
C5_Witness ==
    /\ pc = "Done"
    /\ is_successful(validator_msg)
    /\ retriever_msg.status = "failed"
    /\ calls = <<"validator", "retriever">>
    /\ result = NullResult

\* C6 as stated: the zero-results notice is put up exactly when the researcher
\* reported that filtering emptied the set (status partial, filters_too_strict),
\* never for a retrieval failure or a researcher failure (status failed).
C6_AsStated ==
    "zero_results_warning" \in shown
        <=> (researcher_msg.status = "partial" /\ researcher_msg.filters_too_strict)

C8_AsStated ==
    parse_result.done =>
        /\ (evaluation_text = TextOverall9 => parse_result.score = 9)
        /\ (evaluation_text = TextScore11 => parse_result.score = 10)
        /\ (evaluation_text = TextNoNumbers => parse_result.score = 7)

\* C8 amended: "OVERALL: 9" parses to 9; "Score: 11" matches none of the three
\* rules (11 is no standalone integer 1-10) and parses to the default 7; an
\* out-of-range number is clamped only under the OVERALL and N/10 rules, so
\* "OVERALL: 11" parses to 10; a text without a number parses to 7.
C8_ParseExamples ==
    parse_result.done =>
        /\ (evaluation_text = TextOverall9 => parse_result.score = 9)
        /\ (evaluation_text = TextScore11 => parse_result.score = 7)
        /\ (evaluation_text = TextOverall11 => parse_result.score = 10)
        /\ (evaluation_text = TextNoNumbers => parse_result.score = 7)

C8_Witness == parse_result.done /\ evaluation_text = TextScore11

\* The three rules of C9, stated position by position on the raw text.
C9_Spaces(t, a, b) == \A k \in a..b : IsSpace(t[k])

C9_Number(t, r) ==
    IF r + 1 <= Len(t) /\ IsDigit(t[r + 1])
    THEN 10 * DigitVal(t[r]) + DigitVal(t[r + 1]) ELSE DigitVal(t[r])

\* (a) <<p, r>>: OVERALL at p, a ':' or '-' after optional blanks, digits at r
C9_OverallHits(t) ==
    {h \in (1..Len(t)) \X (1..Len(t)) :
        /\ IsOverall(t[h[1]])
        /\ IsDigit(t[h[2]])
        /\ \E q \in (h[1] + 1)..(h[2] - 1) :
              /\ t[q] \in {":", "-"}
              /\ C9_Spaces(t, h[1] + 1, q - 1)
              /\ C9_Spaces(t, q + 1, h[2] - 1)}

\* (b) <<p, n>>: n digits at p (no third one taken), then / 10 after blanks
C9_SlashHits(t) ==
    {h \in (1..Len(t)) \X {1, 2} :
        /\ \A k \in h[1]..(h[1] + h[2] - 1) : k <= Len(t) /\ IsDigit(t[k])
        /\ \E a \in 1..Len(t), b \in 1..Len(t) :
              /\ a >= h[1] + h[2] /\ b > a /\ b + 1 <= Len(t)
              /\ C9_Spaces(t, h[1] + h[2], a - 1) /\ t[a] = "/"
              /\ C9_Spaces(t, a + 1, b - 1) /\ t[b] = "1" /\ t[b + 1] = "0"}

C9_Alone(t, a, b) ==
    /\ (a = 1 \/ ~IsWordChar(t[a - 1]))
    /\ (b = Len(t) \/ ~IsWordChar(t[b + 1]))

\* (c) <<p, v>>: the integer v in 1..10 stands alone at p
C9_StandaloneHits(t) ==
    {h \in (1..Len(t)) \X (1..10) :
        \/ /\ h[2] = 10 /\ h[1] + 1 <= Len(t)
           /\ t[h[1]] = "1" /\ t[h[1] + 1] = "0" /\ C9_Alone(t, h[1], h[1] + 1)
        \/ /\ h[2] <= 9 /\ IsDigit(t[h[1]]) /\ DigitVal(t[h[1]]) = h[2]
           /\ C9_Alone(t, h[1], h[1])}

C9_Leftmost(H) == CHOOSE h \in H : \A g \in H : h[1] <= g[1]

C9_Clamped(v) == IF v < 1 THEN 1 ELSE IF v > 10 THEN 10 ELSE v

C9_Expected(t) ==
    IF t = <<>> THEN 7
    ELSE IF C9_OverallHits(t) # {}
         THEN C9_Clamped(C9_Number(t, C9_Leftmost(C9_OverallHits(t))[2]))
    ELSE IF C9_SlashHits(t) # {}
         THEN LET p == C9_Leftmost(C9_SlashHits(t))[1] IN
              C9_Clamped(IF <<p, 2>> \in C9_SlashHits(t)
                         THEN 10 * DigitVal(t[p]) + DigitVal(t[p + 1])
                         ELSE DigitVal(t[p]))
    ELSE IF C9_StandaloneHits(t) # {}
         THEN C9_Clamped(C9_Leftmost(C9_StandaloneHits(t))[2])
    ELSE 7

C10_Idempotent ==
    norm_twice.done =>
        /\ norm_twice.o = norm_once.o
        /\ norm_twice.r = norm_once.r

\* a legacy-keyed mapping with a padded mixed-case list was normalized twice
C10_Witness ==
    /\ norm_twice.done
    /\ ~raw_filters.null
    /\ HasKey(raw_filters.d, "service") /\ ~HasKey(raw_filters.d, "service_type")
    /\ raw_filters.d["dietary"] = PyList(<<ElemStr(<<" ", "Vegan">>), ElemNone>>)
    /\ norm_once.o.d["dietary"] = PyList(<<ElemStr(<<"vegan">>), ElemStr(<<"none">>)>>)
    /\ norm_once.r.d["service_type"].l # <<>>

\* the canonical key and its legacy alias
AliasPairs == {<<"service_type", "service">>, <<"special_needs", "special">>}

\* C11 as stated: when the mapping has both the canonical key and its alias,
\* the output slot of either normalizer is computed from the canonical key's
\* value only, whatever that value is (null and the empty list included).
C11_AsStated ==
    (norm_once.done /\ ~raw_filters.null) =>
        \A pr \in AliasPairs :
            (HasKey(raw_filters.d, pr[1]) /\ HasKey(raw_filters.d, pr[2])) =>
                /\ norm_once.o.d[pr[1]] = _ensure_list(raw_filters.d[pr[1]])
                /\ norm_once.r.d[pr[1]] = _ensure_list_researcher(raw_filters.d[pr[1]])

\* a list of lowercased, trimmed, non-empty string tokens
C12_CanonicalSlot(v) ==
    /\ v.t = "list"
    /\ \A k \in 1..Len(v.l) :
          /\ v.l[k].t = "str"
          /\ v.l[k].s # <<>>
          /\ Strip(v.l[k].s) = v.l[k].s
          /\ Lower(v.l[k].s) = v.l[k].s

\* C12 as stated: the filters of the returned analysis are always in the
\* canonical five-slot form, each slot a list of lowercased, trimmed, non-empty
\* tokens and the legacy keys resolved, whatever JSON the model produced.
C12_AsStated ==
    analysis.done =>
        /\ ~analysis.filters.null
        /\ \A k \in CanonKeys : C12_CanonicalSlot(analysis.filters.d[k])
        /\ \A k \in LegacyKeys : ~HasKey(analysis.filters.d, k)

(***************************************************************************)
(* Claims about input_validation_agent (checked under SpecValidate)        *)
(***************************************************************************)
\* the location stands in q at position p as a whole word: preceded by the
\* start of the string or a space, followed by a space or the end
C13_WholeWordAt(location, q, p) ==
    LET e == p + Len(location) - 1 IN
    /\ e <= Len(q)
    /\ \A j \in 1..Len(location) : q[p + j - 1] = location[j]
    /\ (p = 1 \/ q[p - 1] = " ")
    /\ (e = Len(q) \/ q[e + 1] = " ")

C13_Exempt(location, q) ==
    /\ location \in CuisineCountries
    /\ \E k \in 1..Len(q) : Substrings(q[k]) \cap cuisine_words # {}

C13_GeoRejected == validation.msg.error = "Geographic restriction"

\* C13: a query within the length limits is rejected with the geographic
\* restriction if and only if a disallowed location stands in the lowercased
\* query as a whole word and is not exempt (a cuisine country in a query that
\* also has a food word); "cambodian restaurant" passes, bare "cambodia" is
\* rejected, and an exempt location does not shield a second one.
C13_GateA ==
    (validation.done
     /\ validation.msg.error \notin {"Query too short", "Query too long"}) =>
        LET q == Lower(validation.query) IN
        /\ C13_GeoRejected <=>
              \E location \in expanded_invalid, p \in 1..Len(q) :
                  C13_WholeWordAt(location, q, p) /\ ~C13_Exempt(location, q)
        /\ validation.query = QueryCambodianRestaurant => ~C13_GeoRejected
        /\ validation.query = QueryCambodia => C13_GeoRejected
        /\ validation.query = QueryThailandFoodChicago => C13_GeoRejected

\* an exempt location and a second, disallowed one in the same query
C13_Witness ==
    /\ validation.done
    /\ validation.query = QueryThailandFoodChicago
    /\ C13_GeoRejected

C14_PassedGateA ==
    validation.msg.error \notin
        {"Query too short", "Query too long", "Geographic restriction"}

\* C14: for a query past Gate A: an answer holding NO or NOT fails it as not a
\* restaurant query ("best hotels in boston" answered NO is rejected so); with
\* no answer (the call failed) the query fails for lack of restaurant keywords
\* exactly when none of the vocabulary occurs in it and succeeds otherwise; any
\* other answer lets it succeed.
C14_GateB ==
    (validation.done /\ C14_PassedGateA) =>
        LET a == validation.answer
            q == Lower(validation.query)
            says_no == \E k \in 1..Len(a) : a[k] \in WordsWithNo
            has_keyword ==
                \E k \in 1..Len(q) : Substrings(q[k]) \cap restaurant_keywords # {}
            msg == validation.msg
        IN  /\ (a # <<>> /\ says_no) =>
                  msg.status = "failed" /\ msg.error = "Not a restaurant query"
            /\ (a # <<>> /\ ~says_no) => msg.status = "success"
            /\ (a = <<>> /\ ~has_keyword) =>
                  msg.status = "failed" /\ msg.error = "No restaurant keywords"
            /\ (a = <<>> /\ has_keyword) => msg.status = "success"
            /\ (validation.query = QueryBestHotels /\ a = <<"NO">>) =>
                  msg.error = "Not a restaurant query"

\* the call failed and the query has no word of the vocabulary
C14_Witness ==
    /\ validation.done
    /\ validation.answer = <<>>
    /\ validation.query = <<"hotels", " ", "chicago", ",">>
    /\ validation.msg.error = "No restaurant keywords"

(***************************************************************************)
(* Claims about researcher_agent (checked under SpecResearch)              *)
(***************************************************************************)
\* the researcher was given a non-empty set and ran to its end
ResearchCompleted ==
    /\ research.done /\ ~research.raised
    /\ is_successful(research.retriever_msg)
    /\ FrameLen(research.retriever_msg.data) > 0

\* the rows of a sequence at the positions K, in their order
RowsAt(rows, K) ==
    [j \in 1..Cardinality(K) |->
        rows[CHOOSE k \in K : Cardinality({x \in K : x <= k}) = j]]

\* C15: when filtering leaves no row the researcher returns status partial, a
\* null payload, confidence 0 and filters_too_strict (not failed, not the
\* unfiltered set); when rows remain it returns status success, confidence 0.9
\* and those rows sorted by overall score, highest first.
C15_ZeroOrRanked ==
    ResearchCompleted =>
        LET left == research.out.after_attrs
            msg == research.out.msg
        IN  /\ Len(left) = 0 =>
                  /\ msg.status = "partial" /\ ~msg.has_data /\ msg.data = NoFrame
                  /\ msg.confidence = 0 /\ msg.filters_too_strict
            /\ Len(left) > 0 =>
                  /\ msg.status = "success" /\ msg.has_data /\ msg.confidence = 90
                  /\ Len(msg.data.rows) = Len(left)
                  /\ \A k \in 1..Len(left) :
                        \E j \in 1..Len(left) : msg.data.rows[j] = left[k]
                  /\ \A j \in 1..Len(left), k \in 1..Len(left) :
                        j < k => Store[msg.data.rows[j]].overall
                                     >= Store[msg.data.rows[k]].overall

\* rows remained and the ranking changed their order
C15_Witness ==
    /\ ResearchCompleted
    /\ Len(research.out.after_attrs) >= 3
    /\ research.out.msg.status = "success"
    /\ research.out.msg.data.rows # research.out.after_attrs

\* the rows whose price tier is known and at most the ceiling
C16_Affordable(rows, level) ==
    RowsAt(rows, {k \in 1..Len(rows) : Store[rows[k]].price \in 1..level})

C16_Rule ==
    (research.done /\ is_successful(research.retriever_msg)
     /\ research.max_price.kind = "int") =>
        research.out.after_price =
            C16_Affordable(research.retriever_msg.data.rows, research.max_price.level)

C16_Example ==
    /\ research.done /\ is_successful(research.retriever_msg)
    /\ research.retriever_msg.data.rows = FrameTenTiers
    /\ research.max_price = Tier(2)

\* C16 as stated: the price step keeps exactly the rows with tier <= max_price
\* in their order, and of the ten rows with tiers 1,2,3,4,2,1,3,4,2,1 and
\* max_price 2 it leaves 5.
C16_AsStated ==
    /\ C16_Rule
    /\ C16_Example => Len(research.out.after_price) = 5

\* C16 amended: the price step keeps exactly the rows with tier <= max_price in
\* their order; of the ten rows with tiers 1,2,3,4,2,1,3,4,2,1 and max_price 2
\* it leaves the 6 rows with tiers 1,2,2,1,2,1.
C16_PriceCeiling ==
    /\ C16_Rule
    /\ C16_Example =>
          /\ Len(research.out.after_price) = 6
          /\ research.out.after_price = <<4, 1, 5, 8, 9, 12>>

C16_Witness == C16_Example /\ Len(research.out.after_price) = 6

\* slot, token and the boolean column the token stands for
C17_Mapping ==
    {<<"dietary", "vegetarian", "SERVES_VEGETARIAN">>,
     <<"dietary", "vegan", "SERVES_VEGETARIAN">>,
     <<"meal_time", "breakfast", "SERVES_BREAKFAST">>,
     <<"meal_time", "lunch", "SERVES_LUNCH">>,
     <<"meal_time", "dinner", "SERVES_DINNER">>,
     <<"accessibility", "wheelchair", "IS_WHEELCHAIR_ACCESSIBLE">>,
     <<"accessibility", "groups", "GOOD_FOR_GROUPS">>,
     <<"accessibility", "group", "GOOD_FOR_GROUPS">>,
     <<"accessibility", "children", "GOOD_FOR_CHILDREN">>,
     <<"accessibility", "kids", "GOOD_FOR_CHILDREN">>,
     <<"accessibility", "family", "GOOD_FOR_CHILDREN">>,
     <<"service_type", "outdoor", "OUTDOOR_SEATING">>,
     <<"service_type", "takeout", "TAKEOUT">>,
     <<"service_type", "delivery", "DELIVERY">>,
     <<"service_type", "reservations", "RESERVABLE">>,
     <<"service_type", "reservable", "RESERVABLE">>,
     <<"special_needs", "coffee_shop", "SERVES_COFFEE">>,
     <<"special_needs", "cafe", "SERVES_COFFEE">>,
     <<"special_needs", "pet_friendly", "ALLOWS_DOGS">>,
     <<"special_needs", "dogs", "ALLOWS_DOGS">>,
     <<"special_needs", "live_music", "LIVE_MUSIC">>}

\* the columns the requested tokens stand for
C17_Wanted ==
    LET f == _normalize_attribute_filters(research.filters) IN
    {m[3] : m \in {x \in C17_Mapping :
                      \E k \in 1..Len(f.d[x[1]].l) : f.d[x[1]].l[k].s = <<x[2]>>}}

\* C17: the attribute steps keep exactly the rows in which every requested
\* token's column is true, for the columns the set has; a requested column the
\* set lacks is skipped, leaving the rows as they are, and the stage does not
\* fail.
C17_AttributeSteps ==
    ResearchCompleted =>
        LET cols == research.retriever_msg.data.cols
            rows == research.out.after_safety
        IN  /\ research.out.after_attrs =
                  RowsAt(rows, {k \in 1..Len(rows) :
                                   \A c \in C17_Wanted \cap cols : RowTrue(rows[k], c)})
            /\ research.out.msg.status # "failed"

\* vegan and kids asked of a set without the master columns: the vegetarian
\* flag filtered, the children flag was skipped
C17_Witness ==
    /\ ResearchCompleted
    /\ C17_Wanted = {"SERVES_VEGETARIAN", "GOOD_FOR_CHILDREN", "GOOD_FOR_GROUPS"}
    /\ research.retriever_msg.data.cols = EmbeddingCols
    /\ Len(research.out.after_attrs) > 0
    /\ Len(research.out.after_attrs) < Len(research.out.after_safety)
    /\ \E k \in 1..Len(research.out.after_attrs) :
          ~RowTrue(research.out.after_attrs[k], "GOOD_FOR_CHILDREN")

(***************************************************************************)
(* Further claims about one run of orchestrator_agent (checked under Spec) *)
(***************************************************************************)
\* the retriever was given a reference point and returned rows with coordinates
C18_ReferencePoint ==
    /\ retriever_msg.status = "success"
    /\ args.user_location.has_latitude
    /\ "LATITUDE" \in retriever_msg.data.cols
    /\ \E k \in 1..FrameLen(retriever_msg.data) : Store[retriever_msg.data.rows[k]].coords

\* the set carries the two distance columns and is in ascending order of
\* distance, the rows without coordinates kept
C18_SortedByDistance ==
    LET rows == retriever_msg.data.rows IN
    /\ {"DISTANCE_FROM_USER_M", "DISTANCE_FROM_USER_MI"} \subseteq retriever_msg.data.cols
    /\ \A j \in 1..Len(rows), k \in 1..Len(rows) :
          (j < k /\ Store[rows[j]].coords /\ Store[rows[k]].coords) =>
              Store[rows[j]].dist <= Store[rows[k]].dist
    /\ Len(rows) = Len(SearchRows(args.cuisine,
                                  EffectiveArea(args.search_area, args.location), TopK))

\* C18 as stated: given a reference point and rows with coordinates, the
\* retriever's set has the distance columns and is sorted by ascending
\* distance in every location mode (none, include_strict, include_nearby,
\* exclude), rows without coordinates kept.
C18_AsStated == C18_ReferencePoint => C18_SortedByDistance

\* C19 as stated: no exception leaves a stage or orchestrator_agent: every
\* stage returns a message and the run ends in a terminal outcome.
C19_AsStated ==
    /\ pc # "Raised"
    /\ ~writer_msg.raised

(***************************************************************************)
(* Claims about execute_intent (checked under SpecIntent)                  *)
(***************************************************************************)
\* execute_intent returned, having extracted a DataFrame from previous_results
IntentExecuted ==
    /\ followup.done
    /\ followup.previous_results.shape \in {"researcher_data", "full_data", "DataFrame"}

\* the returned rows are in ascending order of key
C20_Ascending(rows, key) ==
    \A j \in 1..Len(rows), k \in 1..Len(rows) : j < k => key[rows[j]] <= key[rows[k]]

\* the rows with coordinates are in ascending order of distance to the point
\* and no row without coordinates precedes one with coordinates
C20_Closest(rows, point) ==
    \A j \in 1..Len(rows), k \in 1..Len(rows) :
        j < k =>
            /\ Store[rows[k]].coords => Store[rows[j]].coords
            /\ (Store[rows[j]].coords /\ Store[rows[k]].coords) =>
                   HaversineFrom(point, rows[j]) <= HaversineFrom(point, rows[k])

\* the rows with a price tier are in ascending order of tier, before the
\* rows without one
C20_Cheapest(rows) ==
    \A j \in 1..Len(rows), k \in 1..Len(rows) :
        j < k =>
            /\ Store[rows[k]].price # 0 => Store[rows[j]].price # 0
            /\ Store[rows[k]].price # 0 => Store[rows[j]].price <= Store[rows[k]].price

C20_Safest(rows) ==
    \A j \in 1..Len(rows), k \in 1..Len(rows) :
        j < k => Store[rows[j]].safety >= Store[rows[k]].safety

C20_FromPrevious(rows) ==
    /\ \A j \in 1..Len(rows) :
          \E k \in 1..Len(followup.previous_results.df.rows) :
              rows[j] = followup.previous_results.df.rows[k]
    /\ \A j \in 1..Len(rows), k \in 1..Len(rows) : j # k => rows[j] # rows[k]

C20_Recognized == {"find_closest", "find_cheapest", "find_safest", "filter_by_attribute"}

\* C20 as stated: find_closest returns at most 3 rows by ascending distance
\* to the resolved target (rows without coordinates last); find_cheapest or
\* sort_by = price returns at most 5 rows by ascending price tier;
\* find_safest or sort_by = safety returns at most 5 rows by descending
\* safety score; an unrecognized intent or requires_new_search returns a
\* routing signal with no rows; every returned row is a row of the previous
\* result set.
C20_AsStated ==
    IntentExecuted =>
        LET intent == followup.intent
            out == followup.out
        IN  /\ intent.intent_type = "find_closest" =>
                  /\ Len(out.rows) <= 3
                  /\ out.kind = "results" =>
                        C20_Closest(out.rows,
                                    TargetCoords(intent.target_location,
                                                 followup.user_location).point)
            /\ (intent.intent_type = "find_cheapest" \/ intent.sort_by = "price") =>
                  /\ Len(out.rows) <= 5
                  /\ C20_Cheapest(out.rows)
            /\ (intent.intent_type = "find_safest" \/ intent.sort_by = "safety") =>
                  /\ Len(out.rows) <= 5
                  /\ C20_Safest(out.rows)
            /\ (intent.intent_type \notin C20_Recognized \/ intent.requires_new_search) =>
                  /\ out.kind = "signal"
                  /\ out.rows = <<>>
            /\ C20_FromPrevious(out.rows)

\* the place names of the inputs that lie outside Boston/Cambridge/Somerville
OutOfRegion == {"Paris"}

\* C21 as stated: geocoding returns null for every place name outside the
\* supported region; a follow-up naming such a place gets no coordinates
\* for it.
C21_AsStated ==
    (/\ IntentExecuted
     /\ followup.intent.intent_type = "find_closest"
     /\ followup.intent.target_location \in OutOfRegion) =>
        /\ geocode_location(followup.intent.target_location) = NoCoords
        /\ followup.out.kind # "results"

(***************************************************************************)
(* Claims about the composed query strings (checked under SpecQuery)       *)
(***************************************************************************)
\* every single quote of the text stands in a run of even length: each quote
\* of the original text was doubled
C22_QuotesDoubled(text) ==
    \A p \in 1..Len(text) :
        text[p] = Quote =>
            LET lo == CHOOSE a \in 1..p :
                        /\ \A m \in a..p : text[m] = Quote
                        /\ (a = 1 \/ text[a - 1] # Quote)
                hi == CHOOSE b \in p..Len(text) :
                        /\ \A m \in p..b : text[m] = Quote
                        /\ (b = Len(text) \/ text[b + 1] # Quote)
            IN  (hi - lo + 1) % 2 = 0

\* C22 as stated: every interpolated text (free-text query, location name,
\* cuisine label, restaurant name, restaurant id, prompt) has its single
\* quotes doubled in the composed query string.
C22_AsStated ==
    \A k \in 1..Len(composed.query) :
        composed.query[k].origin # "code" => C22_QuotesDoubled(composed.query[k].text)

(***************************************************************************)
(* Further claims about one run of orchestrator_agent (checked under Spec) *)
(***************************************************************************)
\* how many times the stage was invoked
CallCount(stage) == Cardinality({k \in 1..Len(calls) : calls[k] = stage})

\* each stage is invoked within its bound, the reviewer only right after a
\* writer call of the same iteration that succeeded
C23_BoundedCalls ==
    /\ CallCount("validator") <= 1
    /\ CallCount("retriever") <= 1
    /\ CallCount("researcher") <= 1
    /\ CallCount("writer") <= args.max_iterations
    /\ Len(iters) <= args.max_iterations
    /\ \A k \in 1..Len(calls) :
          calls[k] = "reviewer" =>
              /\ k > 1 /\ calls[k - 1] = "writer"
              /\ \E n \in 1..Len(iters) :
                    /\ iters[n].last_call = k
                    /\ iters[n].writer_ok
                    /\ iters[n].stamp = k - 1
    /\ \A n \in 1..Len(iters), m \in 1..Len(iters) :
          n # m => iters[n].last_call # iters[m].last_call

\* C23 as stated: validator, retriever and researcher run at most once, the
\* writer at most max_iterations times, the reviewer at most once per
\* iteration and only after that iteration's writer call succeeded, and the
\* run ends by reaching a return after at most max_iterations iterations.
C23_AsStated ==
    /\ C23_BoundedCalls
    /\ Terminal => (pc = "Done" /\ result.returned)

(***************************************************************************)
(* Further claims about input_validation_agent (checked under SpecValidate)*)
(***************************************************************************)
C24_GateAErrors == {"Query too short", "Query too long", "Geographic restriction"}

\* C24: the validator stops at the first failing check: the intent check is
\* asked of the model at most once, and exactly when none of the Gate A
\* checks (too short, too long, geographic restriction) failed, these being
\* tried in that order; a successful validation returns the original query
\* unchanged with confidence 0.95.
C24_ShortCircuit ==
    validation.done =>
        LET facts == QueryFacts(validation.query)
            msg == validation.msg
        IN  /\ validation.llm_calls <= 1
            /\ validation.llm_calls = 1 <=> msg.error \notin C24_GateAErrors
            /\ validation.llm_calls = 1 =>
                  ~facts.too_short /\ ~facts.too_long /\ facts.geo # "blocked"
            /\ facts.too_short => msg.error = "Query too short"
            /\ msg.error = "Query too long" => ~facts.too_short
            /\ msg.error = "Geographic restriction" => ~facts.too_short /\ ~facts.too_long
            /\ msg.status = "success" =>
                  /\ validation.payload = validation.query
                  /\ msg.confidence = 95
                  /\ validation.llm_calls = 1
            /\ msg.status # "success" => validation.payload = <<>> /\ msg.confidence = 0

\* a cuisine query naming a country passed Gate A, was put to the model once
\* and came back unchanged
C24_Witness ==
    /\ validation.done
    /\ validation.query = QueryCambodianRestaurant
    /\ validation.msg.status = "success"
    /\ validation.llm_calls = 1
    /\ validation.payload = QueryCambodianRestaurant

(***************************************************************************)
(* Claims about a session (checked under SpecSession)                      *)
(***************************************************************************)
\* C25: no stage modifies the set it receives: once the retriever returned,
\* its set keeps its rows, order and columns through the researcher and the
\* loop and is what the run returns as retriever_data; after a follow-up the
\* kept result set is as before (no added distance columns, no reordering),
\* and so is the result of the run.
C25_NoMutation ==
    [][/\ retriever_msg.status # "none" => retriever_msg'.data = retriever_msg.data
       /\ researcher_msg.status # "none" => researcher_msg'.data = researcher_msg.data
       /\ (result'.returned /\ ~result'.null) =>
              /\ result'.retriever_data = retriever_msg'.data
              /\ result'.researcher_data = researcher_msg'.data
       /\ followup'.done =>
              /\ followup'.after = followup'.previous_results
              /\ followup'.after.df.rows = result'.researcher_data.rows
              /\ followup'.after.df.cols = result'.researcher_data.cols
              /\ result' = result]_vars

\* a find_closest follow-up returned rows, after a run whose researcher
\* filtered and re-ranked the retriever's set
C25_Witness ==
    /\ followup.done
    /\ followup.intent.intent_type = "find_closest"
    /\ followup.out.kind = "results"
    /\ result.researcher_data.rows # result.retriever_data.rows
    /\ followup.out.rows # FirstN(result.researcher_data.rows, 3)

(***************************************************************************)
(* Further claims about one run of orchestrator_agent (checked under Spec) *)
(***************************************************************************)
\* C26 as stated: every non-null result of orchestrator_agent has a
\* quality_score from 1 to 10 and a narrative text that is not empty or
\* blank, and no writer output is recorded as best with a score outside 1..10.
C26_AsStated ==
    /\ (result.returned /\ ~result.null) =>
          /\ result.quality_score \in 1..10
          /\ Strip(result.recommendation) # <<>>
    /\ best_writer_msg # NoWriterMsg => best_score \in 1..10

(***************************************************************************)
(* Further claims about input_validation_agent (checked under SpecValidate)*)
(***************************************************************************)
\* the words of the model's answers whose upper-cased text holds "YES"
C27_WordsWithYes == {"YES", "Yes"}

\* C27 as stated: when the model answered the intent check, the query is
\* accepted only if the answer holds "YES"; an answer that is neither a yes
\* nor a no does not let the query pass.
C27_AsStated ==
    (/\ validation.done
     /\ validation.llm_calls = 1
     /\ validation.answer # <<>>
     /\ validation.msg.status = "success") =>
        \E k \in 1..Len(validation.answer) : validation.answer[k] \in C27_WordsWithYes

(***************************************************************************)
(* Further claims about the filter normalizers (checked under SpecNorm)    *)
(***************************************************************************)
\* C28 as stated: the two normalizers agree on every input mapping, those
\* carrying both a canonical key and its legacy alias included: the filters
\* the orchestrator echoes are the filters the researcher applies.
C28_AsStated ==
    norm_once.done => norm_once.o = norm_once.r

(***************************************************************************)
(* Further claims about the researcher's message in one run (under Spec)   *)
(***************************************************************************)
\* the Writer/Reviewer loop was entered: the run stands in it or a writer call
\* was made
C29_LoopEntered == pc = "Iterating" \/ Occurs("writer")

\* C29: whenever the run enters the Writer/Reviewer loop, the researcher's
\* message handed to the writer is successful (status success, a payload, at
\* least one row); after a researcher message with status partial or failed
\* the loop is not entered, no writer call is made and the run returns null.
C29_SuccessfulToWriter ==
    /\ C29_LoopEntered =>
          /\ is_successful(researcher_msg)
          /\ researcher_msg.status = "success"
          /\ researcher_msg.has_data
          /\ FrameLen(researcher_msg.data) >= 1
    /\ (Occurs("researcher") /\ researcher_msg.status \in {"partial", "failed"}) =>
          /\ ~C29_LoopEntered
          /\ CallCount("writer") = 0
          /\ pc = "Done" /\ result.null

\* the researcher dropped some of the retrieved rows, kept others, and the
\* writer was called with what it kept
C29_Witness ==
    /\ Occurs("writer")
    /\ is_successful(researcher_msg)
    /\ FrameLen(researcher_msg.data) >= 1
    /\ FrameLen(researcher_msg.data) < FrameLen(retriever_msg.data)

(***************************************************************************)
(* Further claims about execute_intent (checked under SpecIntent)          *)
(***************************************************************************)
C30_ByOverall(rows) ==
    \A j \in 1..Len(rows), k \in 1..Len(rows) :
        j < k => Store[rows[j]].overall >= Store[rows[k]].overall

\* C30 as stated: every intent of type filter_by_attribute is handled in the
\* attribute-filter branch, whatever its sort_by: the result carries the action
\* show_filtered and at most 5 rows sorted by the requested dimension (safety,
\* price, or overall score by default).
C30_AsStated ==
    (IntentExecuted /\ followup.intent.intent_type = "filter_by_attribute") =>
        LET out == followup.out IN
        /\ out.kind = "results"
        /\ out.action = "show_filtered"
        /\ Len(out.rows) <= 5
        /\ IF followup.intent.sort_by = "safety" THEN C20_Safest(out.rows)
           ELSE IF followup.intent.sort_by = "price" THEN C20_Cheapest(out.rows)
           ELSE C30_ByOverall(out.rows)

====
